---- MODULE Spec2Model ----
(***************************************************************************)
(* State-machine model of the chisme real-time layer: the WebSocket        *)
(* handlers (channel, DM, voice), the in-memory connection registries and  *)
(* the Redis-backed presence and voice stores.                             *)
(*                                                                         *)
(* Each handler step (handshake, one inbound frame, disconnect cleanup) is *)
(* one action.  A step threads a record W of the shared mutable state      *)
(* through the calls the handler makes, in the order the code makes them.  *)
(*                                                                         *)
(* handlers.py calls manager.broadcast(room, payload) and                  *)
(* manager.send_to_user(room, user, payload); the registry in manager.py   *)
(* provides these as broadcast_to_server and send_to_user_in_server, keyed *)
(* by the room id the handler passes.                                      *)
(***************************************************************************)
EXTENDS Integers, Sequences, FiniteSets, TLC

\* ------------------------------------------------------------------ bounds
NumConns == 3          \* transport handles that may ever be opened
LifeConns == 2         \* handles opened in the lifecycle scenario
NumUsers == 3          \* active users in the users table
NumRooms == 2          \* channel rooms
NumLifeRooms == 1      \* rooms attached to outside the voice-room scenario
PRESENCE_TTL == 2      \* REDIS_PRESENCE_TTL, counted in clock ticks
MaxMessages == 3       \* rows the messages table may get

Conns == 1..NumConns
Users == 1..NumUsers
Rooms == 1..NumRooms
DMs == {1, 2}
NoConn == 0
NoUser == 0
NoRoom == 0

\* ------------------------------------------------------------- constants
WS_1008 == 1008

\* ------------------------------------------------- persistent rows (DB)
\* users table: ids 1..NumUsers are active, NumUsers+1 is deactivated,
\* larger ids have no row.
InactiveUser == NumUsers + 1
UnknownUser == NumUsers + 2
db_active_user(id) == id \in Users

\* ------------------------------------------------------- python values
\* A JSON / JWT field value: k is its Python type, v the number it denotes
\* (for a str: the number its digits spell, when numeric).
PyNone == [k |-> "none", v |-> 0, numeric |-> FALSE]
PyIntV(n) == [k |-> "int", v |-> n, numeric |-> TRUE]
PyStr(n) == [k |-> "str", v |-> n, numeric |-> TRUE]
PyWord == [k |-> "str", v |-> 0, numeric |-> FALSE]
PyList == [k |-> "list", v |-> 0, numeric |-> FALSE]

\* int(x): ok with the value, or a ValueError / TypeError.
py_int(x) ==
    IF x.k = "int" \/ (x.k = "str" /\ x.numeric)
    THEN [ok |-> TRUE, v |-> x.v]
    ELSE [ok |-> FALSE, v |-> 0]

py_isinstance_int(x) == x.k = "int"


\* ------------------------------------------------------------------ state
VARIABLES
    conn,            \* per transport handle: pc, endpoint, room, user
    tr,              \* per handle: transport "open" | "lost" | "closed" |
                     \*   "stalled" (the peer reads nothing: a send to it
                     \*   never completes)
    codes,           \* per handle: close codes the handler passed to close()
    connections,     \* ConnectionManager._connections: room -> user -> handle
    key_order,       \* iteration order of _connections[room]: per user the
                     \*   handle that inserted the key (handles are taken in
                     \*   increasing order, a dict iterates in insertion order)
    dm_connections,  \* ConnectionManager._dm_connections: dm -> user -> handle
    voice_conns,     \* VoiceConnectionManager._connections: user -> handle
    voice_users,     \* VoiceConnectionManager._voice_users: user -> state
    redis_up,        \* get_redis() returns a client and its calls succeed
    presence,        \* redis presence:{user}: status and remaining ttl
    rv_user,         \* redis voice:user:{user}: state blob and remaining ttl
    rv_chan,         \* redis voice:{channel}:users: member set and ttl
    sent,            \* per handle: frames delivered to it by the last step
    last,            \* the last step taken: [op, c, tk]
    runs,            \* per handle: times its cleanup cascade has run
    joined,          \* per handle: a voice.join of it was announced and
                     \*   no voice.leave of it since
    idle,            \* per user: ticks since set_online / heartbeat
    messages,        \* messages table: row id -> channel_id, user_id, is_deleted
    read_receipts,   \* read_receipts table: user -> channel -> row present,
                     \*   last_read_message_id (NoMessage is NULL)
    observed,        \* user -> channel: highest latest_id a mark-read of the
                     \*   pair has seen
    req,             \* the last REST request on the tables: op, user, channel
    dm_channels,     \* dm_channels table: row id -> user1_id, user2_id
    servers,         \* servers table: server id -> owner_id (NoUser: no row)
    memberships,     \* server_memberships: server id -> user -> role
    invite,          \* server_invites: the row of the one code handed out
    redeemed,        \* users who joined a server by redeeming the invite
    resp,            \* outcome of the last REST request on these tables
    pending,         \* per user: a request between its dependencies and its body
    sweep            \* the broadcast task send_message has scheduled

vars == <<conn, tr, codes, connections, key_order, dm_connections, voice_conns,
          voice_users, redis_up, presence, rv_user, rv_chan, sent, last,
          runs, joined, idle, messages, read_receipts, observed, req,
          dm_channels, servers, memberships, invite, redeemed, resp, pending,
          sweep>>

\* A server of every room, and one more id that has no row at first.
Servers == 1..(NumRooms + 1)

ROLE_OWNER == "owner"
ROLE_ADMIN == "admin"
ROLE_MEMBER == "member"
NoRole == "none"

\* server_memberships: the users with a row for the room's server.
ServerMembers(room) == {u \in Users : memberships[room][u] # NoRole}

\* users.is_site_admin and users.can_create_server: user 1 is the operator,
\* user 2 may create servers, user 3 has neither flag.
is_site_admin(u) == u = 1
can_create_server(u) == u = 2

NoInvite == [server_id |-> 0, max_uses |-> 0, use_count |-> 0, is_active |-> FALSE]
NoSweep == [pc |-> "none", server_id |-> 0, message |-> 0, items |-> <<>>,
            dead |-> <<>>, failed |-> {}]
NoPending == [op |-> "none", server_id |-> 0, target |-> 0,
              new_role |-> NoRole, role |-> NoRole]

NoPresence == [status |-> "none", ttl |-> 0]
NoVoiceState == [ch |-> NoRoom, muted |-> FALSE, video |-> FALSE, ttl |-> 0]
NoVoiceSet == [members |-> {}, ttl |-> 0]
NoVoiceUser == [in |-> FALSE, muted |-> FALSE, video |-> FALSE, speaking |-> FALSE]
NoSent == [c \in Conns |-> <<>>]
IdleConn == [pc |-> "idle", ep |-> "none", room |-> NoRoom, user |-> NoUser]

\* The shared mutable state a handler step threads through its calls.
Cur ==
    [connections |-> connections, key_order |-> key_order,
     dm_connections |-> dm_connections,
     voice_conns |-> voice_conns, voice_users |-> voice_users,
     presence |-> presence, rv_user |-> rv_user, rv_chan |-> rv_chan,
     tr |-> tr, sent |-> NoSent, idle |-> idle, blocked |-> FALSE]

Commit(W) ==
    /\ connections' = W.connections
    /\ key_order' = W.key_order
    /\ dm_connections' = W.dm_connections
    /\ voice_conns' = W.voice_conns
    /\ voice_users' = W.voice_users
    /\ presence' = W.presence
    /\ rv_user' = W.rv_user
    /\ rv_chan' = W.rv_chan
    /\ tr' = W.tr
    /\ sent' = W.sent
    /\ idle' = W.idle

\* Where the handler stands after a run of calls: at an await that never
\* returns, or at the position pc the code reaches next.
PcAfter(W, pc) == IF W.blocked THEN "blocked" ELSE pc

\* ws.send_text succeeds only on a transport that is still open.
Sendable(W, h) == W.tr[h] = "open"

Deliver(W, handles, ev) ==
    [W EXCEPT !.sent = [c \in Conns |->
        IF c \in handles THEN Append(W.sent[c], ev) ELSE W.sent[c]]]

\* ------------------------------------------------------- redis presence
VALID_STATUSES == {"online", "away", "dnd"}

\* Variant of set_online that stores whatever status it is given.
set_online_any(W, u, status) ==
    IF ~redis_up THEN [W EXCEPT !.idle[u] = 0]
    ELSE [W EXCEPT !.presence[u] = [status |-> status, ttl |-> PRESENCE_TTL],
                   !.idle[u] = 0]

set_online(W, u, status) ==
    IF status \notin VALID_STATUSES THEN W
    ELSE IF ~redis_up THEN [W EXCEPT !.idle[u] = 0]
    ELSE [W EXCEPT !.presence[u] = [status |-> status, ttl |-> PRESENCE_TTL],
                   !.idle[u] = 0]

\* Variant of set_offline that leaves the key to its TTL.
set_offline_keep(W, u) == W

set_offline(W, u) ==
    IF W.blocked \/ ~redis_up THEN W
    ELSE [W EXCEPT !.presence[u] = NoPresence]

\* Variant of heartbeat that writes the key anew (setex "online").
presence_heartbeat_setex(W, u) ==
    IF ~redis_up THEN [W EXCEPT !.idle[u] = 0]
    ELSE [W EXCEPT !.presence[u] = [status |-> "online", ttl |-> PRESENCE_TTL],
                   !.idle[u] = 0]

\* expire() on a missing key changes nothing.
presence_heartbeat(W, u) ==
    IF ~redis_up THEN [W EXCEPT !.idle[u] = 0]
    ELSE IF W.presence[u].status = "none" THEN [W EXCEPT !.idle[u] = 0]
    ELSE [W EXCEPT !.presence[u].ttl = PRESENCE_TTL, !.idle[u] = 0]

get_status(pres, u) ==
    IF ~redis_up THEN "offline"
    ELSE IF pres[u].status = "none" THEN "offline"
    ELSE pres[u].status

\* The ids a list names, and the last place of an id in it (a dict
\* comprehension keeps the last value given to a key).
Range(q) == {q[i] : i \in DOMAIN q}

LastIndex(q, x) ==
    CHOOSE i \in DOMAIN q : q[i] = x /\ \A j \in DOMAIN q : q[j] = x => j <= i

EmptyMap == [u \in {} |-> "offline"]

\* Variant of get_bulk_status that hands out the raw replies.
get_bulk_status_raw(pres, user_ids) ==
    IF user_ids = <<>> THEN EmptyMap
    ELSE IF ~redis_up THEN [uid \in Range(user_ids) |-> "offline"]
    ELSE LET values == [i \in DOMAIN user_ids |-> pres[user_ids[i]].status]
         IN [uid \in Range(user_ids) |-> values[LastIndex(user_ids, uid)]]

\* get_bulk_status(user_ids): {} for an empty list before the store is
\* looked at; all "offline" without a client or when the pipeline raises;
\* else one GET per list entry, zipped with the list, a missing key
\* ("none") read as "offline".
get_bulk_status(pres, user_ids) ==
    IF user_ids = <<>> THEN EmptyMap
    ELSE IF ~redis_up THEN [uid \in Range(user_ids) |-> "offline"]
    ELSE LET values == [i \in DOMAIN user_ids |-> pres[user_ids[i]].status]
         IN [uid \in Range(user_ids) |->
                LET v == values[LastIndex(user_ids, uid)]
                IN IF v # "none" THEN v ELSE "offline"]

\* Lists of user ids a caller may ask about, repeats included.
MaxBulk == 2
BulkInputs == UNION {[1..n -> Users] : n \in 0..MaxBulk}

\* ---------------------------------------------------------- redis voice
\* Variant of join_voice that keeps a state blob the user already has
\* (set ... nx).
join_voice_keep(W, ch, u, muted, video) ==
    IF ~redis_up THEN W
    ELSE [W EXCEPT
        !.rv_chan[ch] = [members |-> W.rv_chan[ch].members \union {u},
                         ttl |-> PRESENCE_TTL],
        !.rv_user[u] = IF W.rv_user[u].ch # NoRoom
                       THEN [W.rv_user[u] EXCEPT !.ttl = PRESENCE_TTL]
                       ELSE [ch |-> ch, muted |-> muted, video |-> video,
                             ttl |-> PRESENCE_TTL]]

join_voice(W, ch, u, muted, video) ==
    IF ~redis_up THEN W
    ELSE [W EXCEPT
        !.rv_chan[ch] = [members |-> W.rv_chan[ch].members \union {u},
                         ttl |-> PRESENCE_TTL],
        !.rv_user[u] = [ch |-> ch, muted |-> muted, video |-> video,
                        ttl |-> PRESENCE_TTL]]

\* Variant of leave_voice that reaches the store whatever its state.
leave_voice_always(W, ch, u) ==
    LET rest == W.rv_chan[ch].members \ {u} IN
    [W EXCEPT
        !.rv_chan[ch] = IF rest = {} THEN NoVoiceSet
                        ELSE [W.rv_chan[ch] EXCEPT !.members = rest],
        !.rv_user[u] = NoVoiceState]

\* srem of the last member removes the set key.
leave_voice(W, ch, u) ==
    IF ~redis_up THEN W
    ELSE LET rest == W.rv_chan[ch].members \ {u} IN
         [W EXCEPT
            !.rv_chan[ch] = IF rest = {} THEN NoVoiceSet
                            ELSE [W.rv_chan[ch] EXCEPT !.members = rest],
            !.rv_user[u] = NoVoiceState]

update_state(W, u, ch, muted, video) ==
    IF ~redis_up THEN W
    ELSE [W EXCEPT !.rv_user[u] = [ch |-> ch, muted |-> muted,
                                   video |-> video, ttl |-> PRESENCE_TTL]]

voice_heartbeat(W, ch, u) ==
    IF ~redis_up THEN W
    ELSE [W EXCEPT
        !.rv_chan[ch].ttl = IF W.rv_chan[ch].members = {} THEN 0
                            ELSE PRESENCE_TTL,
        !.rv_user[u].ttl = IF W.rv_user[u].ch = NoRoom THEN 0
                           ELSE PRESENCE_TTL]

get_channel_voice_users(W, ch) ==
    IF ~redis_up THEN {} ELSE W.rv_chan[ch].members

\* None (FALSE) when the store is down or the key is missing.
get_user_voice_state(W, u) ==
    IF ~redis_up THEN NoVoiceState ELSE W.rv_user[u]

\* {user: state} for the users whose state key exists.
get_bulk_voice_states(W, ids) ==
    IF ~redis_up THEN {}
    ELSE {[user_id |-> u, muted |-> W.rv_user[u].muted,
           video |-> W.rv_user[u].video] :
              u \in {x \in ids : W.rv_user[x].ch # NoRoom}}

\* list_channels: voice_count is the length of the participant list.
voice_count(W, ch) == Cardinality(get_channel_voice_users(W, ch))

\* --------------------------------------------------- ConnectionManager
\* Assigning to a key the dict already has keeps the key's position.
connect(W, server_id, user_id, ws) ==
    [W EXCEPT !.connections[server_id][user_id] = ws,
              !.key_order[server_id][user_id] =
                  IF W.connections[server_id][user_id] = NoConn THEN ws ELSE @]

\* A handler whose await never returns (W.blocked) executes nothing more.
disconnect(W, user_id, server_id) ==
    IF W.blocked THEN W
    ELSE [W EXCEPT !.connections[server_id][user_id] = NoConn,
                   !.key_order[server_id][user_id] = NoConn]

\* Sweep of a room map m (user -> handle): the users tried, and those
\* whose send raised.
SweepTargets(m, exclude) == {u \in DOMAIN m : m[u] # NoConn /\ u # exclude}
SweepDead(W, m, exclude) ==
    {u \in SweepTargets(m, exclude) : ~Sendable(W, m[u])}

\* Variant of the sweep that gives up at the first send that raises.
broadcast_to_server_abort(W, server_id, payload, exclude_user_id) ==
    LET m == W.connections[server_id]
        dead == SweepDead(W, m, exclude_user_id)
    IN IF dead # {} THEN W
       ELSE Deliver(W, {m[u] : u \in SweepTargets(m, exclude_user_id)}, payload)

\* Variant of the sweep that writes to the handles of every room.
broadcast_to_server_everywhere(W, server_id, payload, exclude_user_id) ==
    Deliver(W, {W.connections[r][u] : r \in Rooms, u \in Users \ {exclude_user_id}}
                   \ {NoConn}, payload)

\* The for loop awaits one send_text after the other, in the dict's
\* order.  A send to a stalled handle never returns: the handles before it
\* have been tried, those after it are never reached, and the loop over
\* dead is never reached either.
Stalled(W, h) == W.tr[h] = "stalled"

SweepTried(W, server_id, exclude) ==
    LET m == W.connections[server_id]
        targets == SweepTargets(m, exclude)
        stuck == {u \in targets : Stalled(W, m[u])}
    IN {u \in targets : \A s \in stuck :
            W.key_order[server_id][u] < W.key_order[server_id][s]}

broadcast_to_server(W, server_id, payload, exclude_user_id) ==
    IF W.blocked THEN W
    ELSE
    LET m == W.connections[server_id]
        targets == SweepTargets(m, exclude_user_id)
        tried == SweepTried(W, server_id, exclude_user_id)
        dead == SweepDead(W, m, exclude_user_id) \intersect tried
        ok == {m[u] : u \in tried \ dead}
        W1 == Deliver(W, ok, payload)
    IN IF tried # targets THEN [W1 EXCEPT !.blocked = TRUE]
       ELSE [W1 EXCEPT !.connections[server_id] =
                [u \in DOMAIN m |-> IF u \in dead THEN NoConn ELSE m[u]],
                       !.key_order[server_id] =
                [u \in DOMAIN m |-> IF u \in dead THEN NoConn ELSE @[u]]]

\* Variant of send_to_user_in_server that sweeps the whole room.
send_to_user_in_server_all(W, server_id, user_id, payload) ==
    broadcast_to_server(W, server_id, payload, NoUser)

\* Variant of send_to_user_in_server that keeps a handle whose send raised.
send_to_user_in_server_keep(W, server_id, user_id, payload) ==
    IF user_id \notin Users THEN W
    ELSE LET ws == W.connections[server_id][user_id] IN
         IF ws = NoConn THEN W
         ELSE IF Sendable(W, ws) THEN Deliver(W, {ws}, payload)
         ELSE W

send_to_user_in_server(W, server_id, user_id, payload) ==
    IF W.blocked \/ user_id \notin Users THEN W
    ELSE LET ws == W.connections[server_id][user_id] IN
         IF ws = NoConn THEN W
         ELSE IF Stalled(W, ws) THEN [W EXCEPT !.blocked = TRUE]
         ELSE IF Sendable(W, ws) THEN Deliver(W, {ws}, payload)
         ELSE disconnect(W, user_id, server_id)

\* What send_to_user_in_server returns: "True" when the frame was written,
\* "False" when the user has no handle there or the write raised.
send_to_user_in_server_ret(W, server_id, user_id) ==
    IF user_id \notin Users THEN "False"
    ELSE LET ws == W.connections[server_id][user_id] IN
         IF ws = NoConn THEN "False"
         ELSE IF Sendable(W, ws) THEN "True"
         ELSE "False"

connect_dm(W, dm_id, user_id, ws) ==
    [W EXCEPT !.dm_connections[dm_id][user_id] = ws]

disconnect_dm(W, user_id, dm_id) ==
    [W EXCEPT !.dm_connections[dm_id][user_id] = NoConn]

broadcast_dm(W, dm_id, payload) ==
    LET m == W.dm_connections[dm_id]
        dead == SweepDead(W, m, NoUser)
        ok == {m[u] : u \in SweepTargets(m, NoUser) \ dead}
        W1 == Deliver(W, ok, payload)
    IN [W1 EXCEPT !.dm_connections[dm_id] =
            [u \in DOMAIN m |-> IF u \in dead THEN NoConn ELSE m[u]]]

\* ---------------------------------------------- VoiceConnectionManager
\* old.close() closes a transport that is still open; on a lost one it
\* raises and the error is swallowed.
voice_connect(W, user_id, ws) ==
    LET old == W.voice_conns[user_id]
        W1 == IF old # NoConn /\ W.tr[old] = "open"
              THEN [W EXCEPT !.tr[old] = "closed"] ELSE W
    IN [W1 EXCEPT !.voice_conns[user_id] = ws]

voice_disconnect(W, user_id) ==
    [W EXCEPT !.voice_conns[user_id] = NoConn]

vm_join_voice(W, user_id, muted, video) ==
    [W EXCEPT !.voice_users[user_id] =
        [in |-> TRUE, muted |-> muted, video |-> video, speaking |-> FALSE]]

vm_leave_voice(W, user_id) ==
    [W EXCEPT !.voice_users[user_id] = NoVoiceUser]

update_voice(W, user_id, muted, video, speaking) ==
    IF W.voice_users[user_id].in
    THEN [W EXCEPT !.voice_users[user_id] =
            [in |-> TRUE, muted |-> muted, video |-> video,
             speaking |-> speaking]]
    ELSE W

is_in_voice(W, user_id) ==
    user_id \in Users /\ W.voice_users[user_id].in

get_snapshot(W) ==
    {[user_id |-> u, muted |-> W.voice_users[u].muted,
      video |-> W.voice_users[u].video,
      speaking |-> W.voice_users[u].speaking] :
        u \in {x \in Users : W.voice_users[x].in}}

voice_broadcast(W, payload, exclude) ==
    LET m == W.voice_conns
        dead == SweepDead(W, m, exclude)
        ok == {m[u] : u \in SweepTargets(m, exclude) \ dead}
        W1 == Deliver(W, ok, payload)
    IN [W1 EXCEPT !.voice_conns =
            [u \in DOMAIN m |-> IF u \in dead THEN NoConn ELSE m[u]]]

voice_send_to(W, user_id, payload) ==
    LET ws == W.voice_conns[user_id] IN
    IF ws = NoConn THEN W
    ELSE IF Sendable(W, ws) THEN Deliver(W, {ws}, payload)
    ELSE voice_disconnect(W, user_id)

\* What VoiceConnectionManager.send_to returns: it has no return statement
\* with a value (-> None).
voice_send_to_ret(W, user_id) == "None"


\* ------------------------------------------------------------- frames
Subs == {PyStr(u) : u \in Users \union {InactiveUser, UnknownUser}}
            \union {PyWord, PyNone}
Tokens == {[sig |-> "none", sub |-> PyNone], [sig |-> "bad", sub |-> PyStr(1)]}
            \union {[sig |-> "good", sub |-> x] : x \in Subs}

\* What the first receive_text() of a transport yields.
FirstFrames ==
    {[kind |-> k, type |-> "none", token |-> [sig |-> "none", sub |-> PyNone]] :
        k \in {"closed", "badjson", "nonobject"}}
    \union {[kind |-> "object", type |-> "hello", token |-> t] : t \in Tokens}
    \union {[kind |-> "object", type |-> "auth", token |-> t] : t \in Tokens}

Targets == {PyNone, PyWord, PyList, PyIntV(UnknownUser)}
            \union {PyIntV(u) : u \in Users} \union {PyStr(u) : u \in Users}

PlainTypes == {"user.typing", "presence.heartbeat", "voice.leave",
               "voice.heartbeat", "unknown"}
FlagTypes == {"voice.join", "voice.state_update"}
RelayTypes == {"voice.offer", "voice.answer", "voice.ice_candidate"}

\* Opaque call-setup payloads; "none" is a field the frame does not have.
Payloads == {"p1", "p2"}

ObjFrame(t, m, v, s, tg) ==
    [kind |-> "object", type |-> t, muted |-> m, video |-> v,
     speaking |-> s, target |-> tg, sdp |-> "none", candidate |-> "none",
     from_user_id |-> NoUser]

\* A signalling frame: target, sdp and candidate payloads, and a
\* from_user_id field the client may put into the frame.
SignalFrame(t, tg, sdp, candidate, from) ==
    [kind |-> "object", type |-> t, muted |-> FALSE, video |-> FALSE,
     speaking |-> FALSE, target |-> tg, sdp |-> sdp, candidate |-> candidate,
     from_user_id |-> from]

\* Frames read in the authenticated receive loop.
Frames ==
    {[kind |-> k, type |-> "none", muted |-> FALSE, video |-> FALSE,
      speaking |-> FALSE, target |-> PyNone, sdp |-> "none",
      candidate |-> "none", from_user_id |-> NoUser] :
          k \in {"badjson", "nonobject"}}
    \union {ObjFrame(t, FALSE, FALSE, FALSE, PyNone) : t \in PlainTypes}
    \union {ObjFrame(t, m, v, FALSE, PyNone) :
                t \in FlagTypes, m \in BOOLEAN, v \in BOOLEAN}
    \union {SignalFrame(t, tg, p, q, fr) :
                t \in RelayTypes, tg \in Targets, p \in Payloads,
                q \in Payloads, fr \in {NoUser, 1}}

\* ---------------------------------------------------------- handshake
\* _authenticate: "reject" closes with 1008; "crash" is the AttributeError
\* of data.get on a JSON value that is not an object, raised outside the
\* try; "ok" returns the active user the token names.
authenticate(frame) ==
    IF frame.kind \in {"closed", "badjson"} THEN [res |-> "reject", user |-> NoUser]
    ELSE IF frame.kind = "nonobject" THEN [res |-> "crash", user |-> NoUser]
    ELSE IF frame.type # "auth" THEN [res |-> "reject", user |-> NoUser]
    ELSE IF frame.token.sig # "good" THEN [res |-> "reject", user |-> NoUser]
    ELSE LET n == py_int(frame.token.sub) IN
         IF ~n.ok THEN [res |-> "reject", user |-> NoUser]
         ELSE IF ~db_active_user(n.v) THEN [res |-> "reject", user |-> NoUser]
         ELSE [res |-> "ok", user |-> n.v]

Endpoints == {"channel", "dm", "voice"}
RoomsOf(ep) == IF ep = "channel" THEN Rooms ELSE IF ep = "dm" THEN DMs ELSE {NoRoom}

\* Handles are opened in order of their number.
CanOpen(c) ==
    /\ conn[c].pc = "idle"
    /\ IF c = 1 THEN TRUE ELSE conn[c - 1].pc # "idle"

\* A step of the realtime layer leaves the message tables alone.
ServersSame ==
    UNCHANGED <<servers, memberships, invite, redeemed, resp, pending>>

TablesSame ==
    /\ UNCHANGED <<messages, read_receipts, observed, req, dm_channels, sweep>>
    /\ ServersSame

Step(op, c, f) == last' = [op |-> op, c |-> c, tk |-> "none"] /\ TablesSame

\* A frame step also records the Python type of the relay target it named.
FrameStep(c, f) ==
    /\ last' = [op |-> "frame", c |-> c,
                tk |-> IF f.kind = "object" /\ f.type \in RelayTypes
                       THEN f.target.k ELSE "none"]
    /\ TablesSame

\* The first frame is rejected: websocket.close(code=1008), return None.
HandshakeReject(c, ep, room, frame) ==
    /\ CanOpen(c)
    /\ authenticate(frame).res = "reject"
    /\ conn' = [conn EXCEPT ![c] = [pc |-> "rejected", ep |-> ep,
                                    room |-> room, user |-> NoUser]]
    /\ tr' = [tr EXCEPT ![c] = IF frame.kind = "closed" THEN "lost" ELSE "closed"]
    /\ codes' = [codes EXCEPT ![c] = {WS_1008}]
    /\ sent' = NoSent
    /\ Step("handshake_reject", c, frame.kind)
    /\ UNCHANGED <<connections, key_order, dm_connections, voice_conns, voice_users,
                   redis_up, presence, rv_user, rv_chan, runs, joined, idle>>

\* The first frame is JSON but no object: the handler dies with the
\* AttributeError and never calls close(); the server drops the transport.
HandshakeCrash(c, ep, room, frame) ==
    /\ CanOpen(c)
    /\ authenticate(frame).res = "crash"
    /\ conn' = [conn EXCEPT ![c] = [pc |-> "crashed", ep |-> ep,
                                    room |-> room, user |-> NoUser]]
    /\ tr' = [tr EXCEPT ![c] = "closed"]
    /\ sent' = NoSent
    /\ Step("handshake_crash", c, frame.kind)
    /\ UNCHANGED <<codes, connections, key_order, dm_connections, voice_conns, voice_users,
                   redis_up, presence, rv_user, rv_chan, runs, joined, idle>>

\* ------------------------------------------------------ channel handler
Ev(type, user_id) == [type |-> type, user_id |-> user_id]
PresenceEv(user_id, status) ==
    [type |-> "presence.changed", user_id |-> user_id, status |-> status]
VoiceEv(type, channel_id, user_id, muted, video) ==
    [type |-> type, channel_id |-> channel_id, user_id |-> user_id,
     muted |-> muted, video |-> video]
RelayEv(type, from_user_id, sdp, candidate) ==
    IF type = "voice.ice_candidate"
    THEN [type |-> type, from_user_id |-> from_user_id, candidate |-> candidate]
    ELSE [type |-> type, from_user_id |-> from_user_id, sdp |-> sdp]
SnapshotEv(channel_id, users) ==
    [type |-> "voice.state_snapshot", channel_id |-> channel_id, users |-> users]

\* channel_ws_handler after _authenticate returned user: attach, mark
\* online, announce, then send the voice snapshot to the new handle.
\* Variant of channel_attach that sends the snapshot whatever it holds.
channel_attach_always(W, c, channel_id, user_id) ==
    LET W1 == connect(W, channel_id, user_id, c)
        W2 == set_online(W1, user_id, "online")
        W3 == broadcast_to_server(W2, channel_id, Ev("user.joined", user_id), NoUser)
        W4 == broadcast_to_server(W3, channel_id, PresenceEv(user_id, "online"), NoUser)
        voice_user_ids == get_channel_voice_users(W4, channel_id)
    IN send_to_user_in_server(W4, channel_id, user_id,
            SnapshotEv(channel_id, get_bulk_voice_states(W4, voice_user_ids)))

channel_attach(W, c, channel_id, user_id) ==
    LET W1 == connect(W, channel_id, user_id, c)
        W2 == set_online(W1, user_id, "online")
        W3 == broadcast_to_server(W2, channel_id, Ev("user.joined", user_id), NoUser)
        W4 == broadcast_to_server(W3, channel_id, PresenceEv(user_id, "online"), NoUser)
        voice_user_ids == get_channel_voice_users(W4, channel_id)
        snapshot == get_bulk_voice_states(W4, voice_user_ids)
    IN IF voice_user_ids # {} /\ snapshot # {}
       THEN send_to_user_in_server(W4, channel_id, user_id,
                                   SnapshotEv(channel_id, snapshot))
       ELSE W4

ChannelAttach(c, channel_id, frame) ==
    /\ CanOpen(c)
    /\ authenticate(frame).res = "ok"
    /\ LET u == authenticate(frame).user IN
        /\ conn' = [conn EXCEPT ![c] =
               [pc |-> PcAfter(channel_attach(Cur, c, channel_id, u), "auth"),
                ep |-> "channel", room |-> channel_id, user |-> u]]
        /\ Commit(channel_attach(Cur, c, channel_id, u))
    /\ Step("attach", c, "auth")
    /\ UNCHANGED <<codes, redis_up, runs, joined>>


\* One recognised frame of the channel receive loop (the body of the
\* inner try).  An exception of the branch (int() of a target that is no
\* number) is caught and logged: nothing changes.
channel_dispatch(W, channel_id, user_id, f) ==
    CASE f.type = "user.typing" ->
            broadcast_to_server(W, channel_id, Ev("user.typing", user_id), NoUser)
      [] f.type = "presence.heartbeat" ->
            presence_heartbeat(W, user_id)
      [] f.type = "voice.join" ->
            broadcast_to_server(
                join_voice(W, channel_id, user_id, f.muted, f.video), channel_id,
                VoiceEv("voice.user_joined", channel_id, user_id, f.muted, f.video),
                NoUser)
      [] f.type = "voice.leave" ->
            broadcast_to_server(
                leave_voice(W, channel_id, user_id), channel_id,
                [type |-> "voice.user_left", channel_id |-> channel_id,
                 user_id |-> user_id], NoUser)
      [] f.type = "voice.state_update" ->
            broadcast_to_server(
                update_state(W, user_id, channel_id, f.muted, f.video), channel_id,
                VoiceEv("voice.state_changed", channel_id, user_id, f.muted, f.video),
                NoUser)
      [] f.type \in RelayTypes ->
            IF f.target.k = "none" THEN W
            ELSE IF ~py_int(f.target).ok THEN W
            ELSE send_to_user_in_server(W, channel_id, py_int(f.target).v,
                                        RelayEv(f.type, user_id, f.sdp, f.candidate))
      [] f.type = "voice.heartbeat" ->
            voice_heartbeat(W, channel_id, user_id)
      [] OTHER -> W

InLoop(c, ep) == conn[c].pc = "auth" /\ conn[c].ep = ep /\ tr[c] = "open"

JoinedAfter(c, f) ==
    [joined EXCEPT ![c] = IF f.type = "voice.join" THEN TRUE
                          ELSE IF f.type = "voice.leave" THEN FALSE
                          ELSE joined[c]]

\* A text frame arrives on an authenticated channel socket.  A frame that
\* is not JSON is skipped; a JSON object is dispatched.
ChannelFrame(c, f) ==
    /\ InLoop(c, "channel")
    /\ f.kind # "nonobject"
    /\ Commit(IF f.kind = "badjson" THEN Cur
              ELSE channel_dispatch(Cur, conn[c].room, conn[c].user, f))
    /\ conn' = [conn EXCEPT ![c].pc =
            IF f.kind = "badjson" THEN "auth"
            ELSE PcAfter(channel_dispatch(Cur, conn[c].room, conn[c].user, f),
                         "auth")]
    /\ joined' = IF f.kind = "object" THEN JoinedAfter(c, f) ELSE joined
    /\ FrameStep(c, f)
    /\ UNCHANGED <<codes, redis_up, runs>>

\* A frame that is JSON but no object: data.get raises AttributeError
\* outside the inner try, and the handler only catches WebSocketDisconnect,
\* so the handler dies without its cleanup; the server drops the transport.
ChannelFrameCrash(c, f) ==
    /\ InLoop(c, "channel")
    /\ f.kind = "nonobject"
    /\ conn' = [conn EXCEPT ![c].pc = "crashed"]
    /\ tr' = [tr EXCEPT ![c] = "closed"]
    /\ sent' = NoSent
    /\ Step("frame_crash", c, f.kind)
    /\ UNCHANGED <<codes, connections, key_order, dm_connections, voice_conns, voice_users,
                   redis_up, presence, rv_user, rv_chan, runs, joined, idle>>

\* The except WebSocketDisconnect block of channel_ws_handler.
channel_cleanup(W, channel_id, user_id) ==
    LET voice_state == get_user_voice_state(W, user_id)
        W1 == IF voice_state.ch # NoRoom /\ voice_state.ch = channel_id
              THEN broadcast_to_server(
                       leave_voice(W, channel_id, user_id), channel_id,
                       [type |-> "voice.user_left", channel_id |-> channel_id,
                        user_id |-> user_id], NoUser)
              ELSE W
        W2 == disconnect(W1, user_id, channel_id)
        W3 == set_offline(W2, user_id)
        W4 == broadcast_to_server(W3, channel_id, Ev("user.left", user_id), NoUser)
    IN broadcast_to_server(W4, channel_id, PresenceEv(user_id, "offline"), NoUser)

Gone(c, ep) ==
    conn[c].pc = "auth" /\ conn[c].ep = ep /\ tr[c] \in {"lost", "closed"}

\* receive_text raises WebSocketDisconnect: the cleanup runs and the
\* handler returns.
ChannelDisconnect(c) ==
    /\ Gone(c, "channel")
    /\ Commit(channel_cleanup(Cur, conn[c].room, conn[c].user))
    /\ conn' = [conn EXCEPT ![c].pc =
            PcAfter(channel_cleanup(Cur, conn[c].room, conn[c].user), "done")]
    /\ runs' = [runs EXCEPT ![c] = runs[c] + 1]
    /\ Step("cleanup", c, "disconnect")
    /\ UNCHANGED <<codes, redis_up, joined>>

\* ----------------------------------------------------------- DM handler
\* dm_ws_handler: the user must be one of the two participants of an
\* existing DM row, else close(code=1008).
\* dm_channels: the two users of the row, none when there is no such row.
\* DM 1 is the pair (1, 2) from the start.
dm_row(dm_id) ==
    IF dm_id \in DOMAIN dm_channels
    THEN {dm_channels[dm_id].user1_id, dm_channels[dm_id].user2_id}
    ELSE {}

dm_is_participant(dm_id, user_id) == user_id \in dm_row(dm_id)

DmReject(c, dm_id, frame) ==
    /\ CanOpen(c)
    /\ authenticate(frame).res = "ok"
    /\ ~dm_is_participant(dm_id, authenticate(frame).user)
    /\ conn' = [conn EXCEPT ![c] = [pc |-> "rejected", ep |-> "dm", room |-> dm_id,
                                    user |-> authenticate(frame).user]]
    /\ tr' = [tr EXCEPT ![c] = "closed"]
    /\ codes' = [codes EXCEPT ![c] = {WS_1008}]
    /\ sent' = NoSent
    /\ Step("membership_reject", c, "auth")
    /\ UNCHANGED <<connections, key_order, dm_connections, voice_conns, voice_users,
                   redis_up, presence, rv_user, rv_chan, runs, joined, idle>>

dm_attach(W, c, dm_id, user_id) ==
    set_online(connect_dm(W, dm_id, user_id, c), user_id, "online")

DmAttach(c, dm_id, frame) ==
    /\ CanOpen(c)
    /\ authenticate(frame).res = "ok"
    /\ dm_is_participant(dm_id, authenticate(frame).user)
    /\ conn' = [conn EXCEPT ![c] = [pc |-> "auth", ep |-> "dm", room |-> dm_id,
                                    user |-> authenticate(frame).user]]
    /\ Commit(dm_attach(Cur, c, dm_id, authenticate(frame).user))
    /\ Step("attach", c, "auth")
    /\ UNCHANGED <<codes, redis_up, runs, joined>>

dm_dispatch(W, dm_id, user_id, f) ==
    CASE f.type = "user.typing" ->
            broadcast_dm(W, dm_id, Ev("user.typing", user_id))
      [] f.type = "presence.heartbeat" ->
            presence_heartbeat(W, user_id)
      [] OTHER -> W

DmFrame(c, f) ==
    /\ InLoop(c, "dm")
    /\ f.kind # "nonobject"
    /\ Commit(IF f.kind = "badjson" THEN Cur
              ELSE dm_dispatch(Cur, conn[c].room, conn[c].user, f))
    /\ FrameStep(c, f)
    /\ UNCHANGED <<conn, codes, redis_up, runs, joined>>

\* As in the channel loop, data.get on a non-object escapes the handler.
DmFrameCrash(c, f) ==
    /\ InLoop(c, "dm")
    /\ f.kind = "nonobject"
    /\ conn' = [conn EXCEPT ![c].pc = "crashed"]
    /\ tr' = [tr EXCEPT ![c] = "closed"]
    /\ sent' = NoSent
    /\ Step("frame_crash", c, f.kind)
    /\ UNCHANGED <<codes, connections, key_order, dm_connections, voice_conns, voice_users,
                   redis_up, presence, rv_user, rv_chan, runs, joined, idle>>

dm_cleanup(W, dm_id, user_id) ==
    set_offline(disconnect_dm(W, user_id, dm_id), user_id)

DmDisconnect(c) ==
    /\ Gone(c, "dm")
    /\ Commit(dm_cleanup(Cur, conn[c].room, conn[c].user))
    /\ conn' = [conn EXCEPT ![c].pc = "done"]
    /\ runs' = [runs EXCEPT ![c] = runs[c] + 1]
    /\ Step("cleanup", c, "disconnect")
    /\ UNCHANGED <<codes, redis_up, joined>>


\* -------------------------------------------------------- voice handler
GLOBAL_VOICE_CHANNEL == 0

\* voice_ws_handler after _authenticate: replace the user's old voice
\* socket, then send the participant list on the new socket itself.
voice_attach(W, c, user_id) ==
    Deliver(voice_connect(W, user_id, c), {c},
            SnapshotEv(GLOBAL_VOICE_CHANNEL, get_snapshot(W)))

VoiceAttach(c, frame) ==
    /\ CanOpen(c)
    /\ authenticate(frame).res = "ok"
    /\ conn' = [conn EXCEPT ![c] = [pc |-> "auth", ep |-> "voice", room |-> NoRoom,
                                    user |-> authenticate(frame).user]]
    /\ Commit(voice_attach(Cur, c, authenticate(frame).user))
    /\ Step("attach", c, "auth")
    /\ UNCHANGED <<codes, redis_up, runs, joined>>

voice_dispatch(W, user_id, f) ==
    CASE f.type = "voice.join" ->
            voice_broadcast(
                vm_join_voice(W, user_id, f.muted, f.video),
                VoiceEv("voice.user_joined", GLOBAL_VOICE_CHANNEL, user_id,
                        f.muted, f.video), NoUser)
      [] f.type = "voice.leave" ->
            voice_broadcast(
                vm_leave_voice(W, user_id),
                [type |-> "voice.user_left", channel_id |-> GLOBAL_VOICE_CHANNEL,
                 user_id |-> user_id], NoUser)
      [] f.type = "voice.state_update" ->
            voice_broadcast(
                update_voice(W, user_id, f.muted, f.video, f.speaking),
                [type |-> "voice.state_changed", channel_id |-> GLOBAL_VOICE_CHANNEL,
                 user_id |-> user_id, muted |-> f.muted, video |-> f.video,
                 speaking |-> f.speaking], user_id)
      [] f.type \in RelayTypes ->
            IF ~py_isinstance_int(f.target) THEN W
            ELSE IF ~is_in_voice(W, f.target.v) THEN W
            ELSE voice_send_to(W, f.target.v,
                               RelayEv(f.type, user_id, f.sdp, f.candidate))
      [] OTHER -> W

VoiceFrame(c, f) ==
    /\ InLoop(c, "voice")
    /\ f.kind # "nonobject"
    /\ Commit(IF f.kind = "badjson" THEN Cur
              ELSE voice_dispatch(Cur, conn[c].user, f))
    /\ joined' = IF f.kind = "object" THEN JoinedAfter(c, f) ELSE joined
    /\ FrameStep(c, f)
    /\ UNCHANGED <<conn, codes, redis_up, runs>>

\* The finally block of voice_ws_handler.
voice_cleanup(W, user_id) ==
    LET was_in_voice == is_in_voice(W, user_id)
        W1 == voice_disconnect(vm_leave_voice(W, user_id), user_id)
    IN IF was_in_voice
       THEN voice_broadcast(W1, [type |-> "voice.user_left",
                                 channel_id |-> GLOBAL_VOICE_CHANNEL,
                                 user_id |-> user_id], NoUser)
       ELSE W1

\* msg.get on a JSON value that is no object raises inside the outer try:
\* except Exception logs it, the loop is over, the finally block runs and
\* the handler returns, which drops the transport.
VoiceFrameCrash(c, f) ==
    /\ InLoop(c, "voice")
    /\ f.kind = "nonobject"
    /\ LET W == voice_cleanup(Cur, conn[c].user) IN
       Commit([W EXCEPT !.tr[c] = "closed"])
    /\ conn' = [conn EXCEPT ![c].pc = "done"]
    /\ runs' = [runs EXCEPT ![c] = runs[c] + 1]
    /\ Step("frame_crash", c, f.kind)
    /\ UNCHANGED <<codes, redis_up, joined>>

VoiceDisconnect(c) ==
    /\ Gone(c, "voice")
    /\ Commit(voice_cleanup(Cur, conn[c].user))
    /\ conn' = [conn EXCEPT ![c].pc = "done"]
    /\ runs' = [runs EXCEPT ![c] = runs[c] + 1]
    /\ Step("cleanup", c, "disconnect")
    /\ UNCHANGED <<codes, redis_up, joined>>

\* ----------------------------------------------------------- REST calls
\* POST /api/users/me/status: an invalid status is answered 422 before the
\* store is touched.
set_my_status(W, user_id, status) ==
    IF status \notin VALID_STATUSES THEN W ELSE set_online(W, user_id, status)

SetMyStatus(u, status) ==
    /\ Commit(set_my_status(Cur, u, status))
    /\ Step("set_status", NoConn, status)
    /\ UNCHANGED <<conn, codes, redis_up, runs, joined>>

\* ------------------------------------------------- messages and unread
\* Message ids start at 1; NoMessage stands for NULL / None.
NoMessage == 0
NoReceipt == [row |-> FALSE, last_read_message_id |-> NoMessage]

Max(S) == CHOOSE x \in S : \A y \in S : y <= x

\* Ids of the rows Message.channel_id == ch, Message.is_deleted == False.
LiveMessages(msgs, ch) ==
    {i \in DOMAIN msgs : msgs[i].channel_id = ch /\ ~msgs[i].is_deleted}

\* order_by(Message.id.desc()).first(): the highest such id, or None.
latest_id(msgs, ch) ==
    IF LiveMessages(msgs, ch) = {} THEN NoMessage ELSE Max(LiveMessages(msgs, ch))

\* Variant of mark_channel_read that stores latest_id whatever the row holds.
mark_channel_read_assign(receipts, msgs, user_id, channel_id) ==
    [receipts EXCEPT ![user_id][channel_id] =
        [row |-> TRUE, last_read_message_id |-> latest_id(msgs, channel_id)]]

\* The receipt row after mark_channel_read of (user, channel).
mark_channel_read(receipts, msgs, user_id, channel_id) ==
    LET latest == latest_id(msgs, channel_id)
        receipt == receipts[user_id][channel_id]
    IN IF receipt.row
       THEN IF latest # NoMessage /\
               (receipt.last_read_message_id = NoMessage
                    \/ latest > receipt.last_read_message_id)
            THEN [receipts EXCEPT ![user_id][channel_id].last_read_message_id = latest]
            ELSE receipts
       ELSE [receipts EXCEPT ![user_id][channel_id] =
                [row |-> TRUE, last_read_message_id |-> latest]]

\* Variant of the unread query without the is_deleted filter.
UnreadRowsDeleted(receipts, msgs, channel_ids, user_id) ==
    {i \in DOMAIN msgs :
        /\ msgs[i].channel_id \in channel_ids
        /\ LET last_read == receipts[user_id][msgs[i].channel_id].last_read_message_id
           IN last_read = NoMessage \/ i > last_read}

\* _unread_counts: messages of the channels asked, not deleted, outer-joined
\* with the user's receipt of the channel, kept when the receipt's cursor
\* is NULL (no row, or a row with NULL) or below the message id, counted per
\* channel.  A channel with no such message has no entry.
UnreadRows(receipts, msgs, channel_ids, user_id) ==
    {i \in DOMAIN msgs :
        /\ msgs[i].channel_id \in channel_ids
        /\ ~msgs[i].is_deleted
        /\ LET last_read == receipts[user_id][msgs[i].channel_id].last_read_message_id
           IN last_read = NoMessage \/ i > last_read}

unread_counts(receipts, msgs, channel_ids, user_id) ==
    LET rows == UnreadRows(receipts, msgs, channel_ids, user_id)
        grouped == {msgs[i].channel_id : i \in rows}
    IN [ch \in grouped |-> Cardinality({i \in rows : msgs[i].channel_id = ch})]

\* list_channels: resp.unread_count = unread.get(c.id, 0).
unread_count(receipts, msgs, user_id, ch) ==
    LET unread == unread_counts(receipts, msgs, Rooms, user_id)
    IN IF ch \in DOMAIN unread THEN unread[ch] ELSE 0

RestStep(op, u, ch) ==
    /\ req' = [op |-> op, user |-> u, channel |-> ch]
    /\ last' = [op |-> op, c |-> NoConn, tk |-> "none"]

MessageNewEv(channel_id, id) ==
    [type |-> "message.new", channel_id |-> channel_id, message |-> id]

\* POST .../channels/{channel_id}/messages by a member: the row is added
\* and message.new is broadcast to the room.
SendMessage(u, channel_id) ==
    /\ u \in ServerMembers(channel_id)
    /\ Len(messages) < MaxMessages
    /\ messages' = Append(messages, [channel_id |-> channel_id, user_id |-> u,
                                     is_deleted |-> FALSE])
    /\ Commit(broadcast_to_server(Cur, channel_id,
                                  MessageNewEv(channel_id, Len(messages) + 1),
                                  NoUser))
    /\ RestStep("send_message", u, channel_id)
    /\ UNCHANGED <<conn, codes, redis_up, runs, joined, read_receipts, observed,
                   dm_channels, sweep>>
    /\ ServersSame

\* DELETE /messages/{id} by its author: the row is flagged, never removed.
DeleteMessage(u, id) ==
    /\ id \in DOMAIN messages
    /\ ~messages[id].is_deleted
    /\ messages[id].user_id = u
    /\ messages' = [messages EXCEPT ![id].is_deleted = TRUE]
    /\ sent' = NoSent
    /\ RestStep("delete_message", u, messages[id].channel_id)
    /\ UNCHANGED <<conn, tr, codes, connections, key_order, dm_connections,
                   voice_conns, voice_users, redis_up, presence, rv_user,
                   rv_chan, runs, joined, idle, read_receipts, observed,
                   dm_channels, sweep>>
    /\ ServersSame

\* POST .../channels/{channel_id}/read by a member.
MarkChannelRead(u, channel_id) ==
    /\ u \in ServerMembers(channel_id)
    /\ read_receipts' = mark_channel_read(read_receipts, messages, u, channel_id)
    /\ observed' = [observed EXCEPT ![u][channel_id] =
                        IF latest_id(messages, channel_id) > @
                        THEN latest_id(messages, channel_id) ELSE @]
    /\ sent' = NoSent
    /\ RestStep("mark_read", u, channel_id)
    /\ UNCHANGED <<conn, tr, codes, connections, key_order, dm_connections,
                   voice_conns, voice_users, redis_up, presence, rv_user,
                   rv_chan, runs, joined, idle, messages,
                   dm_channels, sweep>>
    /\ ServersSame

\* ------------------------------------------------- the broadcast task
\* list(self._connections.get(server_id, {}).items()): the pairs of the
\* room's dict, in the dict's order.
ConnectionItems(W, server_id) ==
    LET m == W.connections[server_id]
        us == SweepTargets(m, NoUser)
        before(u) == {v \in us : W.key_order[server_id][v]
                                    < W.key_order[server_id][u]}
    IN [i \in 1..Cardinality(us) |->
           LET u == CHOOSE x \in us : Cardinality(before(x)) = i - 1
           IN [uid |-> u, ws |-> m[u]]]

\* POST .../channels/{channel_id}/messages by a member, with the broadcast
\* as the task ensure_future makes of it: the handler adds the row and
\* returns, the sweep runs in later turns of the event loop.  The model
\* follows one such task at a time.
SendMessageTask(u, channel_id) ==
    /\ u \in ServerMembers(channel_id)
    /\ Len(messages) < MaxMessages
    /\ sweep.pc = "none"
    /\ messages' = Append(messages, [channel_id |-> channel_id, user_id |-> u,
                                     is_deleted |-> FALSE])
    /\ sweep' = [pc |-> "scheduled", server_id |-> channel_id,
                 message |-> Len(messages) + 1, items |-> <<>>,
                 dead |-> <<>>, failed |-> {}]
    /\ sent' = NoSent
    /\ RestStep("send_message", u, channel_id)
    /\ UNCHANGED <<conn, tr, codes, connections, key_order, dm_connections,
                   voice_conns, voice_users, redis_up, presence, rv_user,
                   rv_chan, runs, joined, idle, read_receipts, observed,
                   dm_channels>>
    /\ ServersSame

\* One turn of broadcast_to_server as a task, from one await that
\* suspends to the next.  The first turn takes the snapshot.  A send that
\* raises puts the uid on dead and the loop goes on in the same turn; a send
\* that goes out suspends the task until the event loop resumes it.  When
\* the pairs are used up the turn disconnects every uid on dead and the
\* task ends.  failed remembers the handles whose send raised.
BroadcastTurn ==
    /\ sweep.pc # "none"
    /\ LET items == IF sweep.pc = "scheduled"
                    THEN ConnectionItems(Cur, sweep.server_id)
                    ELSE sweep.items
           ev == MessageNewEv(sweep.server_id, sweep.message)
           good == {i \in DOMAIN items : Sendable(Cur, items[i].ws)}
           k == IF good = {} THEN Len(items) + 1
                ELSE CHOOSE i \in good : \A j \in good : i <= j
           raised == SubSeq(items, 1, k - 1)
           dead == sweep.dead \o [i \in DOMAIN raised |-> raised[i].uid]
           failed == sweep.failed \union {raised[i].ws : i \in DOMAIN raised}
       IN IF k <= Len(items)
          THEN /\ Commit(Deliver(Cur, {items[k].ws}, ev))
               /\ sweep' = [sweep EXCEPT
                              !.pc = "sending",
                              !.items = SubSeq(items, k + 1, Len(items)),
                              !.dead = dead,
                              !.failed = failed]
               /\ last' = [op |-> "sweep_send", c |-> items[k].ws, tk |-> "none"]
          ELSE /\ Commit([Cur EXCEPT
                     !.connections[sweep.server_id] =
                         [u \in Users |-> IF u \in Range(dead)
                                          THEN NoConn ELSE @[u]],
                     !.key_order[sweep.server_id] =
                         [u \in Users |-> IF u \in Range(dead)
                                          THEN NoConn ELSE @[u]]])
               /\ sweep' = [NoSweep EXCEPT !.failed = failed]
               /\ last' = [op |-> "sweep_done", c |-> NoConn, tk |-> "none"]
    /\ UNCHANGED <<conn, codes, redis_up, runs, joined, messages,
                   read_receipts, observed, req, dm_channels>>
    /\ ServersSame

\* ------------------------------------------------------ direct messages
\* Variant of get_or_create that stores the pair as it was given.
get_or_create_as_given(rows, a, b) ==
    LET found == {i \in DOMAIN rows :
                     rows[i].user1_id = a /\ rows[i].user2_id = b}
    IN IF found # {}
       THEN [rows |-> rows, id |-> CHOOSE i \in found : \A j \in found : i <= j]
       ELSE [rows |-> Append(rows, [user1_id |-> a, user2_id |-> b]),
             id |-> Len(rows) + 1]

\* DirectMessageChannel.get_or_create(db, a, b): the table afterwards and
\* the id of the row returned (.first() of the filter, else a new row).
get_or_create(rows, a, b) ==
    LET uid1 == IF a < b THEN a ELSE b
        uid2 == IF a < b THEN b ELSE a
        found == {i \in DOMAIN rows :
                     rows[i].user1_id = uid1 /\ rows[i].user2_id = uid2}
    IN IF found # {}
       THEN [rows |-> rows, id |-> CHOOSE i \in found : \A j \in found : i <= j]
       ELSE [rows |-> Append(rows, [user1_id |-> uid1, user2_id |-> uid2]),
             id |-> Len(rows) + 1]

\* POST /api/dms?other_user_id=: 400 for oneself, 404 for a user that is
\* unknown or inactive (no state change), else get_or_create.
GetOrCreateDm(u, other_user_id) ==
    /\ other_user_id # u
    /\ db_active_user(other_user_id)
    /\ dm_channels' = get_or_create(dm_channels, u, other_user_id).rows
    /\ req' = [op |-> "get_or_create_dm", user |-> u,
               channel |-> get_or_create(dm_channels, u, other_user_id).id]
    /\ last' = [op |-> "get_or_create_dm", c |-> NoConn, tk |-> "none"]
    /\ sent' = NoSent
    /\ UNCHANGED <<conn, tr, codes, connections, key_order, dm_connections,
                   voice_conns, voice_users, redis_up, presence, rv_user,
                   rv_chan, runs, joined, idle, messages, read_receipts,
                   observed, sweep>>
    /\ ServersSame

\* -------------------------------------------------------------- invites
\* The realtime layer and the message tables are not touched by the
\* server, membership and invite endpoints.
RealtimeSame ==
    /\ sent' = NoSent
    /\ UNCHANGED <<conn, tr, codes, connections, key_order, dm_connections,
                   voice_conns, voice_users, redis_up, presence, rv_user,
                   rv_chan, runs, joined, idle, messages, read_receipts,
                   observed, dm_channels, sweep>>

\* The invite code handed out, and a code that was never issued.
InviteCode == 1
Codes == {InviteCode, InviteCode + 1}

\* Invites are created without expires_in_hours; max_uses 0 stands for
\* None (both are falsy in the code's tests).
MaxUses == 2

\* _get_valid_invite(code, db).
get_valid_invite(code, inv) ==
    IF code # InviteCode \/ inv = NoInvite THEN "404"
    ELSE IF ~inv.is_active THEN "410"
    ELSE IF inv.max_uses # 0 /\ inv.use_count >= inv.max_uses THEN "410"
    ELSE "ok"

\* redeem_invite: what the request returns.
redeem_outcome(code, inv, mem, u) ==
    IF get_valid_invite(code, inv) # "ok" THEN get_valid_invite(code, inv)
    ELSE IF mem[inv.server_id][u] # NoRole THEN "already_member"
    ELSE "joined"

\* POST /api/servers/{server_id}/invites by an admin or owner.  The model
\* hands out one code.
CreateInvite(u, server_id, max_uses) ==
    /\ invite = NoInvite
    /\ servers[server_id] # NoUser
    /\ memberships[server_id][u] \in {ROLE_ADMIN, ROLE_OWNER}
    /\ invite' = [server_id |-> server_id, max_uses |-> max_uses,
                  use_count |-> 0, is_active |-> TRUE]
    /\ resp' = "201"
    /\ RestStep("create_invite", u, server_id)
    /\ RealtimeSame
    /\ UNCHANGED <<servers, memberships, redeemed, pending>>

\* POST /api/invites/{code}/redeem.  The model stops at MaxUses + 1
\* redemptions of the invite.
RedeemInvite(u, code) ==
    /\ invite.use_count <= MaxUses
    /\ LET r == redeem_outcome(code, invite, memberships, u)
           n == invite.use_count + 1
       IN /\ resp' = r
          /\ IF r = "joined"
             THEN /\ memberships' =
                        [memberships EXCEPT ![invite.server_id][u] = ROLE_MEMBER]
                  /\ invite' = [invite EXCEPT
                                   !.use_count = n,
                                   !.is_active = ~(invite.max_uses # 0
                                                      /\ n >= invite.max_uses)]
                  /\ redeemed' = redeemed \union {u}
             ELSE UNCHANGED <<memberships, invite, redeemed>>
          /\ RestStep("redeem_invite", u,
                      IF r \in {"joined", "already_member"}
                      THEN invite.server_id ELSE NoRoom)
    /\ RealtimeSame
    /\ UNCHANGED <<servers, pending>>

\* DELETE /api/servers/{server_id}/invites/{code} by an admin or owner.
RevokeInvite(u, server_id, code) ==
    /\ servers[server_id] # NoUser
    /\ memberships[server_id][u] \in {ROLE_ADMIN, ROLE_OWNER}
    /\ IF code = InviteCode /\ invite # NoInvite /\ invite.server_id = server_id
       THEN invite' = [invite EXCEPT !.is_active = FALSE] /\ resp' = "204"
       ELSE invite' = invite /\ resp' = "404"
    /\ RestStep("revoke_invite", u, server_id)
    /\ RealtimeSame
    /\ UNCHANGED <<servers, memberships, redeemed, pending>>

\* -------------------------------------------------- servers and members
\* The role each membership endpoint requires of the caller:
\* require_server_admin or require_server_owner.
MemberOps == {"remove_member", "update_member_role", "transfer_ownership"}
RequiredRoles(op) ==
    IF op = "remove_member" THEN {ROLE_ADMIN, ROLE_OWNER} ELSE {ROLE_OWNER}

\* require_server_member and the role check chained on it: the outcome for
\* the caller, "ok" when the endpoint's body will run.
require_server_role(srv, mem, op, server_id, u) ==
    IF srv[server_id] = NoUser THEN "404"
    ELSE IF mem[server_id][u] = NoRole THEN "403"
    ELSE IF mem[server_id][u] \notin RequiredRoles(op) THEN "403"
    ELSE "ok"

\* The dependencies of a membership endpoint.  They are plain functions,
\* which the framework runs on a worker thread and awaits, so the body runs
\* in a later turn of the event loop with the membership row the
\* dependency loaded into the request's session.  The model follows one
\* such request at a time from its dependencies to its body.
MemberDepends(u, op, server_id, target_user_id, new_role) ==
    /\ \A v \in Users : pending[v] = NoPending
    /\ LET r == require_server_role(servers, memberships, op, server_id, u)
       IN /\ resp' = IF r = "ok" THEN "pending" ELSE r
          /\ pending' =
                IF r = "ok"
                THEN [pending EXCEPT ![u] =
                        [op |-> op, server_id |-> server_id,
                         target |-> target_user_id, new_role |-> new_role,
                         role |-> memberships[server_id][u]]]
                ELSE pending
    /\ RestStep(op, u, server_id)
    /\ RealtimeSame
    /\ UNCHANGED <<servers, memberships, invite, redeemed>>

\* The role of the target row as the body's query sees it: the row is read
\* from the table, except that a row the session has already loaded (the
\* caller's own) keeps the attributes it was loaded with.
target_role(mem, p, u) ==
    IF mem[p.server_id][p.target] = NoRole THEN NoRole
    ELSE IF p.target = u THEN p.role
    ELSE mem[p.server_id][p.target]

\* remove_member, the body: the memberships afterwards and the outcome.
remove_member(mem, p, u) ==
    LET target == target_role(mem, p, u)
    IN IF target = NoRole THEN [mem |-> mem, resp |-> "404"]
       ELSE IF target = ROLE_OWNER THEN [mem |-> mem, resp |-> "403"]
       ELSE IF target = ROLE_ADMIN /\ p.role # ROLE_OWNER
            THEN [mem |-> mem, resp |-> "403"]
       ELSE [mem |-> [mem EXCEPT ![p.server_id][p.target] = NoRole],
             resp |-> "204"]

\* update_member_role, the body.
update_member_role(mem, p, u) ==
    LET target == target_role(mem, p, u)
    IN IF p.new_role \notin {ROLE_ADMIN, ROLE_MEMBER}
       THEN [mem |-> mem, resp |-> "422"]
       ELSE IF target = NoRole THEN [mem |-> mem, resp |-> "404"]
       ELSE IF target = ROLE_OWNER THEN [mem |-> mem, resp |-> "403"]
       ELSE [mem |-> [mem EXCEPT ![p.server_id][p.target] = p.new_role],
             resp |-> "200"]

\* transfer_ownership, the body.  The caller's row is written from the
\* session; when it has been deleted meanwhile the flush fails and the
\* transaction is rolled back.
transfer_ownership(srv, mem, p, u) ==
    IF p.target = u THEN [srv |-> srv, mem |-> mem, resp |-> "400"]
    ELSE IF mem[p.server_id][p.target] = NoRole
    THEN [srv |-> srv, mem |-> mem, resp |-> "400"]
    ELSE IF mem[p.server_id][u] = NoRole
    THEN [srv |-> srv, mem |-> mem, resp |-> "500"]
    ELSE [srv |-> [srv EXCEPT ![p.server_id] = p.target],
          mem |-> [mem EXCEPT ![p.server_id][u] = ROLE_ADMIN,
                              ![p.server_id][p.target] = ROLE_OWNER],
          resp |-> "200"]

\* The body of a membership endpoint whose dependencies have passed.
MemberBody(u) ==
    /\ pending[u] # NoPending
    /\ LET p == pending[u]
           r == IF p.op = "remove_member"
                THEN [srv |-> servers] @@ remove_member(memberships, p, u)
                ELSE IF p.op = "update_member_role"
                THEN [srv |-> servers] @@ update_member_role(memberships, p, u)
                ELSE transfer_ownership(servers, memberships, p, u)
       IN /\ servers' = r.srv
          /\ memberships' = r.mem
          /\ resp' = r.resp
          /\ RestStep(p.op, u, p.server_id)
    /\ pending' = [pending EXCEPT ![u] = NoPending]
    /\ RealtimeSame
    /\ UNCHANGED <<invite, redeemed>>

\* POST /api/servers by a user who may create servers; the new row gets
\* the next free id.
CreateServer(u) ==
    /\ \E s \in Servers : servers[s] = NoUser
    /\ LET s == CHOOSE x \in Servers :
                    servers[x] = NoUser
                    /\ \A y \in Servers : servers[y] = NoUser => x <= y
       IN IF is_site_admin(u) \/ can_create_server(u)
          THEN /\ servers' = [servers EXCEPT ![s] = u]
               /\ memberships' = [memberships EXCEPT ![s][u] = ROLE_OWNER]
               /\ resp' = "201"
               /\ RestStep("create_server", u, s)
          ELSE /\ UNCHANGED <<servers, memberships>>
               /\ resp' = "403"
               /\ RestStep("create_server", u, NoRoom)
    /\ RealtimeSame
    /\ UNCHANGED <<invite, redeemed, pending>>

\* operator_reassign_owner: servers and memberships afterwards.
operator_reassign_owner(srv, mem, server_id, new_owner_id) ==
    IF srv[server_id] = NoUser \/ new_owner_id \notin Users
    THEN [srv |-> srv, mem |-> mem, resp |-> "404"]
    ELSE LET old == IF mem[server_id][srv[server_id]] # NoRole
                    THEN [mem EXCEPT ![server_id][srv[server_id]] = ROLE_ADMIN]
                    ELSE mem
         IN [srv |-> [srv EXCEPT ![server_id] = new_owner_id],
             mem |-> [old EXCEPT ![server_id][new_owner_id] = ROLE_OWNER],
             resp |-> "200"]

\* POST /api/operator/servers/{server_id}/reassign-owner by a site admin.
OperatorReassignOwner(u, server_id, new_owner_id) ==
    /\ is_site_admin(u)
    /\ LET r == operator_reassign_owner(servers, memberships, server_id,
                                        new_owner_id)
       IN /\ servers' = r.srv
          /\ memberships' = r.mem
          /\ resp' = r.resp
    /\ RestStep("reassign_owner", u, server_id)
    /\ RealtimeSame
    /\ UNCHANGED <<invite, redeemed, pending>>

\* ---------------------------------------------------------- environment
\* The client closes or loses its transport: the next receive_text of the
\* handler raises WebSocketDisconnect, and sends to the handle raise.
ClientGone(c) ==
    /\ conn[c].pc = "auth"
    /\ tr[c] = "open"
    /\ tr' = [tr EXCEPT ![c] = "lost"]
    /\ sent' = NoSent
    /\ Step("client_gone", c, "none")
    /\ UNCHANGED <<conn, codes, connections, key_order, dm_connections, voice_conns,
                   voice_users, redis_up, presence, rv_user, rv_chan, runs,
                   joined, idle>>

\* The client stops reading: its socket stays up, a send_text to it never
\* completes and its own handler hears nothing more from it.
ClientStall(c) ==
    /\ conn[c].pc = "auth" /\ conn[c].ep = "channel"
    /\ tr[c] = "open"
    /\ tr' = [tr EXCEPT ![c] = "stalled"]
    /\ sent' = NoSent
    /\ Step("client_stall", c, "none")
    /\ UNCHANGED <<conn, codes, connections, key_order, dm_connections,
                   voice_conns, voice_users, redis_up, presence, rv_user,
                   rv_chan, runs, joined, idle>>

\* The Redis client is gone (get_redis() is None) or its calls raise.
RedisDown ==
    /\ redis_up
    /\ redis_up' = FALSE
    /\ sent' = NoSent
    /\ Step("redis_down", NoConn, "none")
    /\ UNCHANGED <<conn, tr, codes, connections, key_order, dm_connections, voice_conns,
                   voice_users, presence, rv_user, rv_chan, runs, joined, idle>>

RedisUp ==
    /\ ~redis_up
    /\ redis_up' = TRUE
    /\ sent' = NoSent
    /\ Step("redis_up", NoConn, "none")
    /\ UNCHANGED <<conn, tr, codes, connections, key_order, dm_connections, voice_conns,
                   voice_users, presence, rv_user, rv_chan, runs, joined, idle>>

\* One clock tick: every key with a TTL loses one tick and is deleted by
\* Redis when none is left; a key without a TTL (ttl 0) stays.  The step is
\* recorded as "tick_expire" when a presence key ran out in it.
Expire(rec, none) ==
    IF rec.ttl = 0 THEN rec
    ELSE IF rec.ttl = 1 THEN none
    ELSE [rec EXCEPT !.ttl = rec.ttl - 1]

Tick ==
    /\ \/ \E u \in Users : presence[u].ttl > 0 \/ rv_user[u].ttl > 0
                              \/ idle[u] < PRESENCE_TTL
       \/ \E r \in Rooms : rv_chan[r].ttl > 0
    /\ presence' = [u \in Users |-> Expire(presence[u], NoPresence)]
    /\ rv_user' = [u \in Users |-> Expire(rv_user[u], NoVoiceState)]
    /\ rv_chan' = [r \in Rooms |-> Expire(rv_chan[r], NoVoiceSet)]
    /\ idle' = [u \in Users |-> IF idle[u] < PRESENCE_TTL THEN idle[u] + 1
                                ELSE idle[u]]
    /\ sent' = NoSent
    /\ Step(IF \E u \in Users : presence[u].ttl = 1 THEN "tick_expire" ELSE "tick",
            NoConn, "none")
    /\ UNCHANGED <<conn, tr, codes, connections, key_order, dm_connections, voice_conns,
                   voice_users, redis_up, runs, joined>>

\* ------------------------------------------------------- specification
Init ==
    /\ conn = [c \in Conns |-> IdleConn]
    /\ tr = [c \in Conns |-> "open"]
    /\ codes = [c \in Conns |-> {}]
    /\ connections = [r \in Rooms |-> [u \in Users |-> NoConn]]
    /\ key_order = [r \in Rooms |-> [u \in Users |-> NoConn]]
    /\ dm_connections = [d \in DMs |-> [u \in Users |-> NoConn]]
    /\ voice_conns = [u \in Users |-> NoConn]
    /\ voice_users = [u \in Users |-> NoVoiceUser]
    /\ redis_up = TRUE
    /\ presence = [u \in Users |-> NoPresence]
    /\ rv_user = [u \in Users |-> NoVoiceState]
    /\ rv_chan = [r \in Rooms |-> NoVoiceSet]
    /\ sent = NoSent
    /\ last = [op |-> "init", c |-> NoConn, tk |-> "none"]
    /\ runs = [c \in Conns |-> 0]
    /\ joined = [c \in Conns |-> FALSE]
    /\ idle = [u \in Users |-> PRESENCE_TTL]
    /\ messages = <<>>
    /\ read_receipts = [u \in Users |-> [ch \in Rooms |-> NoReceipt]]
    /\ observed = [u \in Users |-> [ch \in Rooms |-> NoMessage]]
    /\ req = [op |-> "none", user |-> NoUser, channel |-> NoRoom]
    /\ dm_channels = <<[user1_id |-> 1, user2_id |-> 2]>>
    /\ servers = [s \in Servers |-> IF s \in Rooms THEN 1 ELSE NoUser]
    /\ memberships =
          [s \in Servers |->
              [u \in Users |->
                  IF s \notin Rooms \/ u = NumUsers THEN NoRole
                  ELSE IF u = 1 THEN ROLE_OWNER ELSE ROLE_MEMBER]]
    /\ invite = NoInvite
    /\ redeemed = {}
    /\ resp = "none"
    /\ pending = [u \in Users |-> NoPending]
    /\ sweep = NoSweep

\* First frames that authenticate, one per active user.
AuthFrames == {f \in FirstFrames : authenticate(f).res = "ok"}

TypingFrames == {f \in Frames : f.kind = "object" /\ f.type = "user.typing"}

\* voice.join and voice.state_update with the default flags.
VoiceCoreFrames ==
    {f \in Frames : f.kind = "object" /\ f.type \in FlagTypes
                        /\ ~f.muted /\ ~f.video}

\* Frames of the lifecycle scenarios: malformed ones, typing, heartbeats,
\* voice join / leave / state update with the default flags.
CoreFrames ==
    {f \in Frames :
        \/ f.kind # "object"
        \/ f.type \in PlainTypes
        \/ (f.type \in FlagTypes /\ ~f.muted /\ ~f.video)}

LConns == 1..LifeConns
LRooms == 1..NumLifeRooms

\* The servers of the server scenario: that of the first room.
LServers == LRooms

\* Channel lifecycle: every handshake outcome, the receive loop, the
\* disconnect cleanup, the store going down and coming back.
Next ==
    \/ \E c \in LConns, room \in LRooms, f \in FirstFrames :
          HandshakeReject(c, "channel", room, f)
    \/ \E c \in LConns, room \in LRooms, f \in FirstFrames :
          HandshakeCrash(c, "channel", room, f)
    \/ \E c \in LConns, room \in LRooms, f \in FirstFrames : ChannelAttach(c, room, f)
    \/ \E c \in LConns, f \in CoreFrames : ChannelFrame(c, f)
    \/ \E c \in LConns, f \in CoreFrames : ChannelFrameCrash(c, f)
    \/ \E c \in LConns : ChannelDisconnect(c)
    \/ \E c \in LConns : ClientGone(c)
    \/ RedisDown
    \/ RedisUp

Spec == Init /\ [][Next]_vars

\* DM and voice lifecycle.
NextEndpoints ==
    \/ \E c \in LConns, ep \in {"dm", "voice"}, f \in FirstFrames :
          \E room \in RoomsOf(ep) : HandshakeReject(c, ep, room, f)
    \/ \E c \in LConns, ep \in {"dm", "voice"}, f \in FirstFrames :
          \E room \in RoomsOf(ep) : HandshakeCrash(c, ep, room, f)
    \/ \E c \in LConns, d \in DMs, f \in FirstFrames : DmReject(c, d, f)
    \/ \E c \in LConns, d \in DMs, f \in FirstFrames : DmAttach(c, d, f)
    \/ \E c \in LConns, f \in CoreFrames : DmFrame(c, f)
    \/ \E c \in LConns, f \in CoreFrames : DmFrameCrash(c, f)
    \/ \E c \in LConns : DmDisconnect(c)
    \/ \E c \in LConns, f \in FirstFrames : VoiceAttach(c, f)
    \/ \E c \in LConns, f \in CoreFrames : VoiceFrame(c, f)
    \/ \E c \in LConns, f \in CoreFrames : VoiceFrameCrash(c, f)
    \/ \E c \in LConns : VoiceDisconnect(c)
    \/ \E c \in LConns : ClientGone(c)

SpecEndpoints == Init /\ [][NextEndpoints]_vars

\* Fan-out scenario: users attach on all three endpoints, type, join
\* voice and vanish.
NextBroadcast ==
    \/ \E c \in Conns, room \in LRooms, f \in AuthFrames : ChannelAttach(c, room, f)
    \/ \E c \in Conns, f \in TypingFrames : ChannelFrame(c, f)
    \/ \E c \in Conns : ChannelDisconnect(c)
    \/ \E c \in Conns, d \in DMs, f \in AuthFrames : DmAttach(c, d, f)
    \/ \E c \in Conns, f \in TypingFrames : DmFrame(c, f)
    \/ \E c \in Conns : DmDisconnect(c)
    \/ \E c \in Conns, f \in AuthFrames : VoiceAttach(c, f)
    \/ \E c \in Conns, f \in VoiceCoreFrames : VoiceFrame(c, f)
    \/ \E c \in Conns : VoiceDisconnect(c)
    \/ \E c \in Conns : ClientGone(c)

SpecBroadcast == Init /\ [][NextBroadcast]_vars

\* Signalling scenario: users attach to a channel room or the voice room,
\* join and leave voice, and send offers, answers and ICE candidates.
RelayFrames ==
    {f \in Frames : f.kind = "object" /\
        \/ f.type \in RelayTypes
        \/ f.type = "voice.leave"
        \/ (f.type = "voice.join" /\ ~f.muted /\ ~f.video)}

NextRelay ==
    \/ \E c \in LConns, room \in LRooms, f \in AuthFrames : ChannelAttach(c, room, f)
    \/ \E c \in LConns, f \in RelayFrames : ChannelFrame(c, f)
    \/ \E c \in LConns : ChannelDisconnect(c)
    \/ \E c \in LConns, f \in AuthFrames : VoiceAttach(c, f)
    \/ \E c \in LConns, f \in RelayFrames : VoiceFrame(c, f)
    \/ \E c \in LConns : VoiceDisconnect(c)
    \/ \E c \in LConns : ClientGone(c)

SpecRelay == Init /\ [][NextRelay]_vars

\* Presence scenario: status changes over REST, one socket that keeps its
\* user's key alive with heartbeats and then disconnects, the clock and the
\* store going away.
HeartbeatFrames ==
    {f \in Frames : f.kind = "object" /\ f.type = "presence.heartbeat"}

StatusInputs == VALID_STATUSES \union {"invisible", "offline"}

NextPresence ==
    \/ \E u \in Users, status \in StatusInputs : SetMyStatus(u, status)
    \/ \E c \in {1}, room \in LRooms, f \in AuthFrames : ChannelAttach(c, room, f)
    \/ \E c \in {1}, f \in HeartbeatFrames : ChannelFrame(c, f)
    \/ \E c \in {1} : ChannelDisconnect(c)
    \/ \E c \in {1} : ClientGone(c)
    \/ Tick
    \/ RedisDown
    \/ RedisUp

SpecPresence == Init /\ [][NextPresence]_vars

\* Voice-room scenario: users with a socket on each of several channels
\* join and leave voice there.
JoinLeaveFrames ==
    {f \in Frames : f.kind = "object" /\
        \/ f.type = "voice.leave"
        \/ (f.type = "voice.join" /\ ~f.muted /\ ~f.video)}

NextRooms ==
    \/ \E c \in Conns, room \in Rooms, f \in AuthFrames : ChannelAttach(c, room, f)
    \/ \E c \in Conns, f \in JoinLeaveFrames : ChannelFrame(c, f)
    \/ \E c \in Conns : ChannelDisconnect(c)
    \/ \E c \in Conns : ClientGone(c)

SpecRooms == Init /\ [][NextRooms]_vars

\* Scenario of the stalled peer: channel sockets of one room, typing
\* frames, clients that vanish and clients that stop reading.
NextStall ==
    \/ \E c \in Conns, room \in LRooms, f \in AuthFrames :
          ChannelAttach(c, room, f)
    \/ \E c \in Conns, f \in TypingFrames : ChannelFrame(c, f)
    \/ \E c \in Conns : ChannelDisconnect(c)
    \/ \E c \in Conns : ClientGone(c)
    \/ \E c \in Conns : ClientStall(c)

SpecStall == Init /\ [][NextStall]_vars

\* Scenario of the voice TTL: channel sockets of one room, voice.join and
\* voice.heartbeat frames, clients that vanish, and the passing of time.
VoiceTtlFrames ==
    {f \in Frames : f.kind = "object" /\
        \/ f.type = "voice.heartbeat"
        \/ (f.type = "voice.join" /\ ~f.muted /\ ~f.video)}

NextVoiceTtl ==
    \/ \E c \in LConns, room \in LRooms, f \in AuthFrames :
          ChannelAttach(c, room, f)
    \/ \E c \in LConns, f \in VoiceTtlFrames : ChannelFrame(c, f)
    \/ \E c \in LConns : ChannelDisconnect(c)
    \/ \E c \in LConns : ClientGone(c)
    \/ Tick

SpecVoiceTtl == Init /\ [][NextVoiceTtl]_vars

\* Scenario of the read cursors: members post, delete their own messages
\* and mark channels read.
NextUnread ==
    \/ \E u \in Users, ch \in Rooms : SendMessage(u, ch)
    \/ \E u \in Users, id \in 1..MaxMessages : DeleteMessage(u, id)
    \/ \E u \in Users, ch \in Rooms : MarkChannelRead(u, ch)

SpecUnread == Init /\ [][NextUnread]_vars

\* Scenario of the room boundaries: channel sockets of both rooms and DM
\* sockets side by side, typing frames, clients that vanish.
NextIsolation ==
    \/ \E c \in Conns, room \in Rooms, f \in AuthFrames : ChannelAttach(c, room, f)
    \/ \E c \in Conns, f \in TypingFrames : ChannelFrame(c, f)
    \/ \E c \in Conns : ChannelDisconnect(c)
    \/ \E c \in Conns, d \in DMs, f \in AuthFrames : DmAttach(c, d, f)
    \/ \E c \in Conns, f \in TypingFrames : DmFrame(c, f)
    \/ \E c \in Conns : DmDisconnect(c)
    \/ \E c \in Conns : ClientGone(c)

SpecIsolation == Init /\ [][NextIsolation]_vars

\* Scenario of the voice flags: a channel socket and a voice socket, voice.join,
\* voice.state_update and voice.leave with every flag, the store going
\* away and coming back.
FlagFrames ==
    {f \in Frames : f.kind = "object" /\ f.type \in FlagTypes \union {"voice.leave"}}
        \union {ObjFrame("voice.state_update", m, v, TRUE, PyNone) :
                    m \in BOOLEAN, v \in BOOLEAN}

NextJoin ==
    \/ \E room \in LRooms, f \in AuthFrames : ChannelAttach(1, room, f)
    \/ \E f \in FlagFrames : ChannelFrame(1, f)
    \/ ChannelDisconnect(1)
    \/ \E f \in AuthFrames : VoiceAttach(2, f)
    \/ \E f \in FlagFrames : VoiceFrame(2, f)
    \/ VoiceDisconnect(2)
    \/ \E c \in LConns : ClientGone(c)
    \/ RedisDown
    \/ RedisUp

SpecJoin == Init /\ [][NextJoin]_vars

\* Scenario of the DM channels: users open DM channels with one another
\* and attach DM sockets to them.
NextDm ==
    \/ \E u \in Users, other \in Users \union {InactiveUser, UnknownUser} :
          GetOrCreateDm(u, other)
    \/ \E c \in LConns, d \in DMs, f \in AuthFrames : DmReject(c, d, f)
    \/ \E c \in LConns, d \in DMs, f \in AuthFrames : DmAttach(c, d, f)
    \/ \E c \in LConns, f \in TypingFrames : DmFrame(c, f)
    \/ \E c \in LConns : DmDisconnect(c)
    \/ \E c \in LConns : ClientGone(c)

SpecDm == Init /\ [][NextDm]_vars

\* Scenario of a user with several views open: channel sockets of both
\* rooms and DM sockets come and go.
NextOnline ==
    \/ \E c \in LConns, room \in Rooms, f \in AuthFrames : ChannelAttach(c, room, f)
    \/ \E c \in LConns, f \in HeartbeatFrames : ChannelFrame(c, f)
    \/ \E c \in LConns : ChannelDisconnect(c)
    \/ \E c \in LConns, d \in DMs, f \in AuthFrames : DmAttach(c, d, f)
    \/ \E c \in LConns : DmDisconnect(c)
    \/ \E c \in LConns : ClientGone(c)

SpecOnline == Init /\ [][NextOnline]_vars

\* Scenario of the broadcast task: members of a room come and go while a
\* message's broadcast is under way.
NextSweep ==
    \/ \E c \in Conns, room \in LRooms, f \in AuthFrames : ChannelAttach(c, room, f)
    \/ \E c \in Conns : ChannelDisconnect(c)
    \/ \E c \in Conns : ClientGone(c)
    \/ \E u \in Users, room \in LRooms : SendMessageTask(u, room)
    \/ BroadcastTurn

SpecSweep == Init /\ [][NextSweep]_vars

\* Scenario of the servers: servers are created, members are promoted and
\* removed, and ownership changes hands.
NextServers ==
    \/ \E u \in Users : CreateServer(u)
    \/ \E u \in Users, op \in MemberOps, s \in LServers, t \in Users,
          r \in {ROLE_ADMIN, ROLE_MEMBER} :
          MemberDepends(u, op, s, t, IF op = "update_member_role" THEN r
                                     ELSE NoRole)
    \/ \E u \in Users : MemberBody(u)
    \/ \E u \in Users, s \in LServers, n \in Users \union {UnknownUser} :
          OperatorReassignOwner(u, s, n)

SpecServers == Init /\ [][NextServers]_vars

\* Scenario of the invites: an invite to a server is created, redeemed and
\* revoked, and members are removed.
NextInvites ==
    \/ \E u \in Users, s \in LServers, m \in 0..MaxUses : CreateInvite(u, s, m)
    \/ \E u \in Users, code \in Codes : RedeemInvite(u, code)
    \/ \E u \in Users, s \in LServers, code \in Codes : RevokeInvite(u, s, code)
    \/ \E u \in Users, s \in LServers, t \in Users :
          MemberDepends(u, "remove_member", s, t, NoRole)
    \/ \E u \in Users : MemberBody(u)

SpecInvites == Init /\ [][NextInvites]_vars


\* ------------------------------------------------------------ properties
Attached(c) ==
    \/ \E r \in Rooms, u \in Users : connections[r][u] = c
    \/ \E d \in DMs, u \in Users : dm_connections[d][u] = c
    \/ \E u \in Users : voice_conns[u] = c

\* The handshake of handle c ended without an authenticated user.
HandshakeFailed(c) == conn[c].pc \in {"rejected", "crashed"} /\ conn[c].user = NoUser

\* C1: Handshake gate.  A handle whose first frame is not a valid auth
\* frame ends closed with code 1008, is never attached to a registry, and
\* the step that fails it writes no presence and delivers no frame to any
\* handle; a failed handle never changes again (no second handshake).
C1_HandshakeGate ==
    /\ [](\A c \in Conns : HandshakeFailed(c) =>
            /\ codes[c] = {WS_1008}
            /\ tr[c] # "open"
            /\ ~Attached(c))
    /\ [][\A c \in Conns :
            /\ (~HandshakeFailed(c) /\ HandshakeFailed(c)') =>
                    /\ presence' = presence
                    /\ connections' = connections
                    /\ dm_connections' = dm_connections
                    /\ voice_conns' = voice_conns
                    /\ sent' = NoSent
            /\ HandshakeFailed(c) => conn'[c] = conn[c]]_vars

\* C2: Broadcast isolation.  For every room sweep (broadcast_to_server,
\* broadcast_dm, VoiceConnectionManager.broadcast) from any reachable
\* registry: every attached, non-excluded handle whose send succeeds gets
\* the event and stays attached although another send failed, and every
\* handle whose send failed is detached from that room afterwards.
SweepPost(W, m, exclude, W2, m2, ev) ==
    \A u \in DOMAIN m :
        (m[u] # NoConn /\ u # exclude) =>
            IF Sendable(W, m[u])
            THEN W2.sent[m[u]] = <<ev>> /\ m2[u] = m[u]
            ELSE W2.sent[m[u]] = <<>> /\ m2[u] = NoConn

C2_BroadcastIsolation ==
    \A ex \in Users \union {NoUser} :
        LET ev == Ev("user.typing", 1) IN
        /\ \A r \in Rooms :
              LET W2 == broadcast_to_server(Cur, r, ev, ex)
              IN SweepPost(Cur, connections[r], ex, W2, W2.connections[r], ev)
        /\ \A d \in DMs :
              LET W2 == broadcast_dm(Cur, d, ev)
              IN SweepPost(Cur, dm_connections[d], NoUser, W2,
                           W2.dm_connections[d], ev)
        /\ LET W2 == voice_broadcast(Cur, ev, ex)
           IN SweepPost(Cur, voice_conns, ex, W2, W2.voice_conns, ev)

\* Three users attached to one room, the third's transport lost: the
\* typing frame of the first reached the first two and the sweep detached
\* the third.
C2_Witness ==
    \E a, b, c \in Conns :
        /\ conn[a].user # conn[b].user
        /\ conn[a].user # conn[c].user
        /\ conn[b].user # conn[c].user
        /\ \A h \in {a, b, c} : conn[h].pc = "auth" /\ conn[h].ep = "channel"
                                   /\ conn[h].room = conn[a].room
        /\ last = [op |-> "frame", c |-> a, tk |-> "none"]
        /\ sent[a] = <<Ev("user.typing", conn[a].user)>>
        /\ sent[b] = <<Ev("user.typing", conn[a].user)>>
        /\ tr[c] = "lost" /\ sent[c] = <<>>
        /\ connections[conn[a].room][conn[c].user] = NoConn
        /\ connections[conn[a].room][conn[a].user] = a
        /\ connections[conn[a].room][conn[b].user] = b

\* C3: Voice relay gating.  A voice.offer / answer / ice_candidate is
\* delivered only when the frame's target_user_id was an integer and the
\* receiving user is a voice participant at that moment; the sender's
\* session continues after the frame.
HasRelay(h) == \E i \in DOMAIN sent[h] : sent[h][i].type \in RelayTypes

VoiceParticipant(h) ==
    IF conn[h].ep = "voice" THEN voice_users[conn[h].user].in
    ELSE get_user_voice_state(Cur, conn[h].user).ch = conn[h].room

C3_RelayGate ==
    /\ \A h \in Conns :
          HasRelay(h) => last.tk = "int" /\ VoiceParticipant(h)
    /\ last.op = "frame" => conn[last.c].pc = "auth" /\ tr[last.c] = "open"

\* C4: Cleanup cascade order.  When a channel connection that announced
\* voice.join (and no voice.leave since) disconnects, every other user's
\* open handle attached to the room receives exactly voice.user_left, then
\* user.left, then presence.changed(offline) for the leaver, and the leaver
\* is detached.
CascadeEvents(channel_id, user_id) ==
    <<[type |-> "voice.user_left", channel_id |-> channel_id, user_id |-> user_id],
      Ev("user.left", user_id),
      PresenceEv(user_id, "offline")>>

Peer(h, c) ==
    /\ conn[h].pc = "auth" /\ conn[h].ep = "channel"
    /\ conn[h].room = conn[c].room
    /\ conn[h].user # conn[c].user
    /\ connections[conn[h].room][conn[h].user] = h
    /\ tr[h] = "open"

C4_CascadeOrder ==
    [][\A c \in Conns :
          (Gone(c, "channel") /\ joined[c]
              /\ last' = [op |-> "cleanup", c |-> c, tk |-> "none"]) =>
                /\ connections'[conn[c].room][conn[c].user] = NoConn
                /\ \A h \in Conns :
                      Peer(h, c) =>
                          sent'[h] = CascadeEvents(conn[c].room, conn[c].user)]_vars

\* C5: Whatever ends the receive loop of an authenticated connection, its
\* cleanup cascade has run when the handler is over, and it never runs more
\* than once.
LoopEnded(c) == conn[c].user # NoUser /\ conn[c].pc \in {"done", "crashed"}

C5_CleanupOnce ==
    \A c \in Conns : runs[c] <= 1 /\ (LoopEnded(c) => runs[c] = 1)

\* C6: Cascade idempotence.  Running the cleanup cascade again for the
\* connection whose cascade has just run delivers no event and leaves the
\* registries, the presence store and the voice state as they are.
Cascade(W, c) ==
    IF conn[c].ep = "channel" THEN channel_cleanup(W, conn[c].room, conn[c].user)
    ELSE IF conn[c].ep = "dm" THEN dm_cleanup(W, conn[c].room, conn[c].user)
    ELSE voice_cleanup(W, conn[c].user)

C6_CascadeIdempotent ==
    \A c \in Conns :
        last = [op |-> "cleanup", c |-> c, tk |-> "none"] => Cascade(Cur, c) = Cur

\* C7: Membership gate.  A connection whose authenticated user is no
\* member of the room it asked for (the channel's server, the DM's pair) is
\* closed with 1008 and never attached; every registry entry is a member.
NonMember(c) ==
    /\ conn[c].user # NoUser
    /\ \/ conn[c].ep = "channel" /\ conn[c].user \notin ServerMembers(conn[c].room)
       \/ conn[c].ep = "dm" /\ ~dm_is_participant(conn[c].room, conn[c].user)

C7_MembershipGate ==
    /\ \A c \in Conns :
          NonMember(c) => conn[c].pc = "rejected" /\ codes[c] = {WS_1008}
                              /\ ~Attached(c)
    /\ \A r \in Rooms, u \in Users :
          connections[r][u] # NoConn => u \in ServerMembers(r)
    /\ \A d \in DMs, u \in Users :
          dm_connections[d][u] # NoConn => dm_is_participant(d, u)

\* C8: No inbound frame terminates an authenticated session: after any
\* frame read in the receive loop the connection is still authenticated,
\* open and attached as before.
C8_FrameKeepsSession ==
    [][\A c \in Conns :
          (conn[c].pc = "auth" /\ tr[c] = "open" /\ last'.c = c
              /\ last'.op \in {"frame", "frame_crash"}) =>
                /\ conn'[c].pc = "auth"
                /\ tr'[c] = "open"
                /\ Attached(c) => Attached(c)']_vars

\* C9: Supersession.  Every handle that is still open and served by its
\* handler is the one the registry maps its (room, user) pair to: a handle
\* replaced by a newer attach of the same pair is not left open.
Registered(c) ==
    IF conn[c].ep = "channel" THEN connections[conn[c].room][conn[c].user] = c
    ELSE IF conn[c].ep = "dm" THEN dm_connections[conn[c].room][conn[c].user] = c
    ELSE voice_conns[conn[c].user] = c

C9_Supersession ==
    \A c \in Conns : (conn[c].pc = "auth" /\ tr[c] = "open") => Registered(c)

\* C10: Presence offline.  Once PRESENCE_TTL ticks have passed since the
\* last set_online / heartbeat of a user, get_status is "offline"; and in
\* the state right after a cleanup called set_offline for a user,
\* get_status of that user is "offline" whatever TTL the key had left.
C10_PresenceOffline ==
    /\ [](\A u \in Users :
            idle[u] >= PRESENCE_TTL => get_status(presence, u) = "offline")
    /\ [][\A c \in Conns :
            (conn[c].pc = "auth"
                /\ last' = [op |-> "cleanup", c |-> c, tk |-> "none"]) =>
                    get_status(presence', conn[c].user) = "offline"]_vars

\* The one presence key that ran out in the last tick, PRESENCE_TTL ticks
\* after its last refresh, reads "offline" with the store up.
C10_Witness ==
    \E u \in Users :
        /\ last.op = "tick_expire"
        /\ redis_up
        /\ idle[u] = PRESENCE_TTL
        /\ get_status(presence, u) = "offline"
        /\ \A v \in Users \ {u} : presence[v] # NoPresence

\* C11: While a connection of user u is in the authenticated receive loop
\* (and the store is reachable), get_status(u) is not "offline", whether or
\* not the client sends heartbeat frames.
C11_ServedStaysOnline ==
    \A c \in Conns :
        (InLoop(c, conn[c].ep) /\ redis_up) =>
            get_status(presence, conn[c].user) # "offline"

\* C12: Every stored presence record holds a status of VALID_STATUSES
\* ("offline" is the absence of a record, never a stored value), and
\* set_online with any other status leaves the store as it is: no record
\* created, an existing record and its expiry untouched.
C12_StoredStatusValid ==
    /\ \A u \in Users :
          \/ presence[u] = NoPresence
          \/ presence[u].status \in VALID_STATUSES /\ presence[u].ttl > 0
    /\ \A u \in Users, status \in StatusInputs \ VALID_STATUSES :
          set_online(Cur, u, status) = Cur

\* With the store up, a status call with a value outside VALID_STATUSES has
\* just been answered: no key was (re)written, and the "away" record set
\* earlier still runs on its old expiry.
C12_Witness ==
    /\ last.op = "set_status"
    /\ redis_up
    /\ \A u \in Users : presence[u].ttl < PRESENCE_TTL
    /\ \E u \in Users : presence[u].status = "away" /\ presence[u].ttl > 0

\* C13: heartbeat(u) changes only the expiry of u's presence record: the
\* stored status is the same before and after, an existing record gets
\* the full TTL again, no other user's record changes, and a user without
\* a record has none afterwards (get_status stays "offline").
C13_HeartbeatFrame ==
    \A u \in Users :
        LET W == presence_heartbeat(Cur, u) IN
        /\ W.presence[u].status = presence[u].status
        /\ \A v \in Users \ {u} : W.presence[v] = presence[v]
        /\ presence[u] = NoPresence =>
              W.presence[u] = NoPresence /\ get_status(W.presence, u) = "offline"
        /\ (redis_up /\ presence[u] # NoPresence) =>
              W.presence[u].ttl = PRESENCE_TTL
        /\ [W EXCEPT !.presence = presence, !.idle = idle] = Cur

\* A socket's user whose key has expired has just sent presence.heartbeat
\* with the store up: no key was created, and another user's "away" record
\* still runs on its old expiry.
C13_Witness ==
    \E c \in Conns :
        /\ last = [op |-> "frame", c |-> c, tk |-> "none"]
        /\ redis_up
        /\ idle[conn[c].user] = 0
        /\ presence[conn[c].user] = NoPresence
        /\ \E v \in Users \ {conn[c].user} :
              presence[v].status = "away" /\ presence[v].ttl = 1

\* C14: Degrade-to-empty.  While the store is unreachable, every presence
\* and voice write leaves the stored records as they are, and every read
\* answers its default: "offline", all "offline", no voice users, no voice
\* state.
StoreOf(W) == <<W.presence, W.rv_user, W.rv_chan>>

C14_DegradeToEmpty ==
    ~redis_up =>
        /\ \A u \in Users, status \in StatusInputs :
              StoreOf(set_online(Cur, u, status)) = StoreOf(Cur)
        /\ \A u \in Users :
              /\ StoreOf(set_offline(Cur, u)) = StoreOf(Cur)
              /\ StoreOf(presence_heartbeat(Cur, u)) = StoreOf(Cur)
              /\ get_status(presence, u) = "offline"
              /\ get_user_voice_state(Cur, u) = NoVoiceState
        /\ \A ids \in BulkInputs :
              /\ \A u \in Range(ids) : get_bulk_status(presence, ids)[u] = "offline"
              /\ get_bulk_voice_states(Cur, Range(ids)) = {}
        /\ \A ch \in Rooms, u \in Users :
              /\ \A m \in BOOLEAN, v \in BOOLEAN :
                    /\ StoreOf(join_voice(Cur, ch, u, m, v)) = StoreOf(Cur)
                    /\ StoreOf(update_state(Cur, u, ch, m, v)) = StoreOf(Cur)
              /\ StoreOf(leave_voice(Cur, ch, u)) = StoreOf(Cur)
              /\ StoreOf(voice_heartbeat(Cur, ch, u)) = StoreOf(Cur)
              /\ get_channel_voice_users(Cur, ch) = {}

\* A user who is online and in voice has just been cleaned up during an
\* outage: the cascade's reads and writes went nowhere, both keys are
\* still stored.
C14_Witness ==
    \E c \in Conns :
        /\ last = [op |-> "cleanup", c |-> c, tk |-> "none"]
        /\ ~redis_up
        /\ presence[conn[c].user] # NoPresence
        /\ rv_user[conn[c].user].ch = conn[c].room
        /\ conn[c].user \in rv_chan[conn[c].room].members

\* C15: A voice state update for a user who is not a participant creates
\* no voice state.  In the store, a user state record exists only for a
\* member of that room's participant set (so get_user_voice_state answers
\* none for everyone else); in the voice room registry, update_voice of a
\* user who is not in voice changes nothing.
C15_UpdateNeedsParticipant ==
    /\ \A u \in Users :
          rv_user[u].ch # NoRoom => u \in rv_chan[rv_user[u].ch].members
    /\ \A u \in Users, m \in BOOLEAN, v \in BOOLEAN, sp \in BOOLEAN :
          ~is_in_voice(Cur, u) => update_voice(Cur, u, m, v, sp) = Cur

\* C16: In every reachable state a user is in the participant set of at
\* most one voice room.
VoiceRoomsOf(u) == {r \in Rooms : u \in rv_chan[r].members}

C16_OneVoiceRoom == \A u \in Users : Cardinality(VoiceRoomsOf(u)) <= 1

\* C17: A voice.user_left for user u is delivered only by a step before
\* which u was a voice participant of that room (the store's state record
\* for a channel room, the registry's for the voice room).
WasParticipant(ev) ==
    IF ev.channel_id = GLOBAL_VOICE_CHANNEL THEN is_in_voice(Cur, ev.user_id)
    ELSE get_user_voice_state(Cur, ev.user_id).ch = ev.channel_id

C17_LeftOnlyIfParticipant ==
    [][\A h \in Conns : \A i \in DOMAIN sent'[h] :
          sent'[h][i].type = "voice.user_left" => WasParticipant(sent'[h][i])]_vars

\* C18: Whatever signalling frame a served connection sends, every event it
\* makes the handler deliver carries the frame's type, from_user_id equal
\* to the user authenticated on the sending connection (not the frame's
\* own from_user_id field) and the frame's sdp (offer, answer) or candidate
\* (ICE) unchanged, and it reaches only the handle registered for the
\* target user.
SignalFrames == {f \in Frames : f.kind = "object" /\ f.type \in RelayTypes}

DispatchOf(c, f) ==
    IF conn[c].ep = "channel"
    THEN channel_dispatch(Cur, conn[c].room, conn[c].user, f)
    ELSE voice_dispatch(Cur, conn[c].user, f)

TargetHandle(c, f) ==
    IF ~py_int(f.target).ok THEN NoConn
    ELSE IF py_int(f.target).v \notin Users THEN NoConn
    ELSE IF conn[c].ep = "channel"
         THEN connections[conn[c].room][py_int(f.target).v]
         ELSE voice_conns[py_int(f.target).v]

C18_RelayIdentity ==
    \A c \in Conns :
        (InLoop(c, "channel") \/ InLoop(c, "voice")) =>
            \A f \in SignalFrames : \A h \in Conns :
                LET out == DispatchOf(c, f).sent[h] IN
                out # <<>> =>
                    /\ h = TargetHandle(c, f)
                    /\ Len(out) = 1
                    /\ out[1].type = f.type
                    /\ out[1].from_user_id = conn[c].user
                    /\ IF f.type = "voice.ice_candidate"
                       THEN out[1] = [type |-> f.type, from_user_id |-> conn[c].user,
                                      candidate |-> f.candidate]
                       ELSE out[1] = [type |-> f.type, from_user_id |-> conn[c].user,
                                      sdp |-> f.sdp]

\* An ICE candidate frame with an integer target has just been relayed:
\* the other user's handle, and only it, holds the event with the sender's
\* authenticated id and the candidate "p2".
C18_Witness ==
    \E c, h \in Conns :
        /\ last = [op |-> "frame", c |-> c, tk |-> "int"]
        /\ conn[h].user # conn[c].user
        /\ sent[h] = <<[type |-> "voice.ice_candidate",
                        from_user_id |-> conn[c].user, candidate |-> "p2"]>>
        /\ \A k \in Conns \ {h} : sent[k] = <<>>

\* C19: A signalling event is delivered only when its sender is a voice
\* participant: after a step that delivered a voice.offer, voice.answer or
\* voice.ice_candidate, the user of the sending connection is in voice.
C19_SenderInVoice ==
    \A h \in Conns :
        HasRelay(h) => last.op = "frame" /\ VoiceParticipant(last.c)

\* C20: On a successful attach the voice.state_snapshot goes to the
\* attaching handle only, and it lists exactly the users in the room's
\* participant set at that moment, each with its stored muted and video
\* flags (for the voice room: the registry's participants, always sent).
IsSnapshot(ev) == ev.type = "voice.state_snapshot"

SnapshotsOf(q) == {i \in DOMAIN q : IsSnapshot(q[i])}

ParticipantStates(channel_id) ==
    {[user_id |-> u, muted |-> get_user_voice_state(Cur, u).muted,
      video |-> get_user_voice_state(Cur, u).video] :
        u \in get_channel_voice_users(Cur, channel_id)}

C20_SnapshotExact ==
    [][\A c \in Conns :
          (conn[c].pc = "idle" /\ conn'[c].pc = "auth") =>
              /\ \A h \in Conns \ {c} : SnapshotsOf(sent'[h]) = {}
              /\ conn'[c].ep = "channel" =>
                    IF get_channel_voice_users(Cur, conn'[c].room) = {}
                    THEN SnapshotsOf(sent'[c]) = {}
                    ELSE /\ SnapshotsOf(sent'[c]) = {Len(sent'[c])}
                         /\ sent'[c][Len(sent'[c])] =
                              SnapshotEv(conn'[c].room,
                                         ParticipantStates(conn'[c].room))
              /\ conn'[c].ep = "voice" =>
                    sent'[c] = <<SnapshotEv(GLOBAL_VOICE_CHANNEL, get_snapshot(Cur))>>]_vars

\* C21 (as stated): when the voice room has no participants at attach time,
\* the attaching handle gets no voice.state_snapshot, only the join and
\* presence announcements, on the channel and on the voice endpoint.
AttachStep(c) == conn[c].pc = "idle" /\ conn'[c].pc = "auth"

NoParticipants(ep, room) ==
    IF ep = "voice" THEN get_snapshot(Cur) = {}
    ELSE get_channel_voice_users(Cur, room) = {}

C21_NoSnapshotWhenEmpty ==
    [][\A c \in Conns :
          (AttachStep(c) /\ conn'[c].ep \in {"channel", "voice"}
              /\ NoParticipants(conn'[c].ep, conn'[c].room)) =>
                \A i \in DOMAIN sent'[c] :
                    sent'[c][i].type \in {"user.joined", "presence.changed"}]_vars

\* C21 (amended): on the channel endpoint an attach to a room without voice
\* participants delivers to the new handle exactly user.joined and
\* presence.changed(online) and no snapshot; on the voice endpoint the
\* snapshot is always sent, with an empty user list when nobody is in voice.
C21_NoSnapshotWhenEmptyChannel ==
    [][\A c \in Conns :
          (AttachStep(c) /\ NoParticipants(conn'[c].ep, conn'[c].room)) =>
              /\ conn'[c].ep = "channel" =>
                    sent'[c] = <<Ev("user.joined", conn'[c].user),
                                 PresenceEv(conn'[c].user, "online")>>
              /\ conn'[c].ep = "voice" =>
                    sent'[c] = <<SnapshotEv(GLOBAL_VOICE_CHANNEL, {})>>]_vars

\* A second user has just attached to a channel whose voice room is empty:
\* both handles hold the two announcements and no snapshot.
C21_Witness ==
    \E c, h \in Conns :
        /\ c # h
        /\ last = [op |-> "attach", c |-> c, tk |-> "none"]
        /\ conn[c].ep = "channel" /\ conn[h].ep = "channel"
        /\ conn[h].room = conn[c].room /\ conn[h].user # conn[c].user
        /\ rv_chan[conn[c].room].members = {}
        /\ sent[c] = <<Ev("user.joined", conn[c].user),
                       PresenceEv(conn[c].user, "online")>>
        /\ sent[h] = sent[c]

\* C22: A typing frame of user u reaches every other user's open handle
\* attached to the same room, and no handle of u itself ever holds a
\* user.typing event of u.
IsTyping(ev) == ev.type = "user.typing"

RoomPeer(h, c) ==
    /\ conn[h].pc = "auth" /\ conn[h].ep = conn[c].ep
    /\ conn[h].room = conn[c].room
    /\ conn[h].user # conn[c].user
    /\ Registered(h)
    /\ tr[h] = "open"

C22_TypingExcludesSender ==
    /\ [](\A h \in Conns : \A i \in DOMAIN sent[h] :
            IsTyping(sent[h][i]) => sent[h][i].user_id # conn[h].user)
    /\ [][\A c \in Conns :
            (last' = [op |-> "frame", c |-> c, tk |-> "none"]
                /\ \E h \in Conns : \E i \in DOMAIN sent'[h] : IsTyping(sent'[h][i])) =>
                    \A h \in Conns :
                        RoomPeer(h, c) =>
                            sent'[h] = <<Ev("user.typing", conn[c].user)>>]_vars

\* C23 (as stated): targeted delivery to (room, user), in the channel
\* registry and in the voice registry alike, returns true exactly when the
\* event was written on the user's attached handle; it returns false and
\* sends nothing when the user is not attached; when the write fails it
\* returns false and detaches that user from that room, every other
\* attachment unchanged.
TargetedPost(W, h, W2, ret, detached, ev) ==
    /\ ret = "True" <=> (h # NoConn /\ W2.sent[h] = <<ev>>)
    /\ h = NoConn => ret = "False" /\ W2 = W
    /\ (h # NoConn /\ Sendable(W, h)) =>
          W2 = Deliver(W, {h}, ev)
    /\ (h # NoConn /\ ~Sendable(W, h)) =>
          ret = "False" /\ W2 = detached

EffectPost(W, h, W2, detached, ev) ==
    /\ h = NoConn => W2 = W
    /\ (h # NoConn /\ Sendable(W, h)) => W2 = Deliver(W, {h}, ev)
    /\ (h # NoConn /\ ~Sendable(W, h)) => W2 = detached

C23_TargetedDelivery ==
    LET ev == RelayEv("voice.offer", 1, "p1", "p1") IN
    /\ \A r \in Rooms, u \in Users :
          TargetedPost(Cur, connections[r][u],
                       send_to_user_in_server(Cur, r, u, ev),
                       send_to_user_in_server_ret(Cur, r, u),
                       disconnect(Cur, u, r), ev)
    /\ \A u \in Users :
          TargetedPost(Cur, voice_conns[u], voice_send_to(Cur, u, ev),
                       voice_send_to_ret(Cur, u),
                       [Cur EXCEPT !.voice_conns[u] = NoConn], ev)

\* C23 (amended): send_to_user_in_server has that contract; for
\* VoiceConnectionManager.send_to the same effects hold (written on the
\* attached handle, nothing sent when not attached, the user detached when
\* the write fails, everything else unchanged) but it returns nothing.
C23_TargetedDeliveryChannel ==
    LET ev == RelayEv("voice.offer", 1, "p1", "p1") IN
    /\ \A r \in Rooms, u \in Users :
          TargetedPost(Cur, connections[r][u],
                       send_to_user_in_server(Cur, r, u, ev),
                       send_to_user_in_server_ret(Cur, r, u),
                       disconnect(Cur, u, r), ev)
    /\ \A u \in Users :
          /\ EffectPost(Cur, voice_conns[u], voice_send_to(Cur, u, ev),
                        [Cur EXCEPT !.voice_conns[u] = NoConn], ev)
          /\ voice_send_to_ret(Cur, u) = "None"

\* A signalling frame with an integer target has just been handled on a
\* channel where the other user's transport was lost: nothing was
\* delivered, the lost handle is detached, the sender is still attached.
C23_Witness ==
    \E c, h \in Conns :
        /\ last = [op |-> "frame", c |-> c, tk |-> "int"]
        /\ conn[c].ep = "channel" /\ conn[h].ep = "channel"
        /\ conn[h].room = conn[c].room /\ conn[h].user # conn[c].user
        /\ conn[h].pc = "auth" /\ tr[h] = "lost"
        /\ connections[conn[h].room][conn[h].user] = NoConn
        /\ connections[conn[c].room][conn[c].user] = c
        /\ sent = NoSent

\* C24: When a send to a recipient fails during the handling of a frame,
\* the recipient's attachment is removed, the sender's session goes on as
\* it was, and the recipient's own disconnect cascade runs eventually:
\* it has run already, or the recipient's handler is still there to run it.
SendFailed(h, c) ==
    /\ h # c
    /\ conn[h].ep = "channel" /\ conn[h].user # NoUser
    /\ connections[conn[h].room][conn[h].user] = h
    /\ ~Sendable(Cur, h)
    /\ connections'[conn[h].room][conn[h].user] # h

C24_PrunedCascadeRuns ==
    [][\A c, h \in Conns :
          (last'.op = "frame" /\ last'.c = c /\ SendFailed(h, c)) =>
              /\ connections'[conn[h].room][conn[h].user] = NoConn
              /\ conn'[c] = conn[c] /\ tr'[c] = tr[c]
              /\ (connections[conn[c].room][conn[c].user] = c =>
                     connections'[conn[c].room][conn[c].user] = c)
              /\ (runs'[h] >= 1 \/ conn'[h].pc = "auth")]_vars

\* C25: A recipient whose send never completes does not prevent delivery
\* to the remaining recipients: a broadcast to a room reaches every
\* attached handle of the room whose transport is healthy.
Healthy(r, u) == connections[r][u] # NoConn /\ tr[connections[r][u]] = "open"

C25_StalledPeerIsolated ==
    \A r \in Rooms :
        LET ev == Ev("user.typing", 1)
            W2 == broadcast_to_server(Cur, r, ev, NoUser)
        IN \A u \in Users :
              Healthy(r, u) => W2.sent[connections[r][u]] = <<ev>>

\* C26: Voice participation self-heals.  When the client of a voice
\* participant has vanished, no cleanup cascade has run for it, and the TTL
\* has run out since its last voice.join / voice.heartbeat (its voice state
\* key has expired), the user is not reported as a participant of the room:
\* not in the participant list, not counted, not in the snapshot.
Vanished(u) ==
    /\ \E c \in Conns : conn[c].user = u /\ tr[c] = "lost" /\ runs[c] = 0
    /\ \A c \in Conns : conn[c].user = u => tr[c] # "open"
    /\ rv_user[u].ch = NoRoom

C26_VoiceSelfHeals ==
    \A r \in Rooms, u \in Users :
        (redis_up /\ Vanished(u)) =>
            /\ u \notin get_channel_voice_users(Cur, r)
            /\ voice_count(Cur, r) =
                  Cardinality(get_channel_voice_users(Cur, r) \ {u})
            /\ \A st \in get_bulk_voice_states(Cur, get_channel_voice_users(Cur, r)) :
                  st.user_id # u

\* C27: Unread monotonicity.  For every user and channel the read cursor
\* never decreases; after any interleaving of mark-read calls the stored
\* cursor is the highest message id any of them has observed; a mark-read
\* that observes a lower id than the stored cursor, or no message at all,
\* leaves the cursor as it is.
Cursor(receipts, u, ch) == receipts[u][ch].last_read_message_id

C27_UnreadMonotone ==
    /\ [](\A u \in Users, ch \in Rooms :
            Cursor(read_receipts, u, ch) = observed[u][ch])
    /\ [][\A u \in Users, ch \in Rooms :
            /\ Cursor(read_receipts', u, ch) >= Cursor(read_receipts, u, ch)
            /\ (req'.op = "mark_read" /\ req'.user = u /\ req'.channel = ch
                  /\ latest_id(messages, ch) <= Cursor(read_receipts, u, ch)) =>
                    Cursor(read_receipts', u, ch) = Cursor(read_receipts, u, ch)]_vars

\* A mark-read has just seen a live message below the stored cursor: the
\* message the cursor points at was deleted after it had been read.
C27_Witness ==
    /\ req.op = "mark_read"
    /\ last.op = "mark_read"
    /\ latest_id(messages, req.channel) # NoMessage
    /\ latest_id(messages, req.channel) < Cursor(read_receipts, req.user, req.channel)
    /\ messages[Cursor(read_receipts, req.user, req.channel)].is_deleted

\* C28: The unread count of a channel for a user is the number of
\* non-deleted messages of the channel whose id exceeds the user's cursor,
\* or of all non-deleted messages when the user has no cursor; it is 0
\* right after the user's mark-read, grows by one with every message posted
\* to the channel, and a mark-read changes no other user's count and no
\* other channel's.
Unread(u, ch) == unread_count(read_receipts, messages, u, ch)

UnreadSpec(u, ch) ==
    IF Cursor(read_receipts, u, ch) = NoMessage
    THEN Cardinality(LiveMessages(messages, ch))
    ELSE Cardinality({i \in LiveMessages(messages, ch) :
                         i > Cursor(read_receipts, u, ch)})

C28_UnreadCount ==
    /\ [](\A u \in Users, ch \in Rooms : Unread(u, ch) = UnreadSpec(u, ch))
    /\ [][\A u \in Users, ch \in Rooms :
            /\ (req'.op = "mark_read" /\ req'.user = u /\ req'.channel = ch) =>
                  /\ unread_count(read_receipts', messages', u, ch) = 0
                  /\ \A u2 \in Users, ch2 \in Rooms :
                        (u2 # u \/ ch2 # ch) =>
                            unread_count(read_receipts', messages', u2, ch2)
                                = Unread(u2, ch2)
            /\ (req'.op = "send_message" /\ req'.channel = ch
                  /\ Len(messages') = Len(messages) + 1) =>
                  unread_count(read_receipts', messages', u, ch) = Unread(u, ch) + 1]_vars

\* A member has just marked a channel read that holds live messages and a
\* deleted one above its cursor: its count is 0 while another member's
\* count of the same channel is not.
C28_Witness ==
    /\ req.op = "mark_read" /\ last.op = "mark_read"
    /\ LiveMessages(messages, req.channel) # {}
    /\ Unread(req.user, req.channel) = 0
    /\ \E i \in DOMAIN messages :
          /\ messages[i].channel_id = req.channel /\ messages[i].is_deleted
          /\ i > Cursor(read_receipts, req.user, req.channel)
    /\ \E u2 \in Users : u2 # req.user /\ Unread(u2, req.channel) > 0

\* C29: A broadcast to room R reaches only handles attached to R at the
\* time of the sweep and never the excluded user; a connection attached
\* only to another server room or to a DM room receives nothing of it, and
\* a DM broadcast reaches only the handles of that DM.
InRoom(r, h, ex) == \E u \in Users : u # ex /\ connections[r][u] = h

InDm(d, h) == \E u \in Users : dm_connections[d][u] = h

C29_RoomConfinement ==
    /\ [](\A ex \in Users \union {NoUser} :
            LET ev == Ev("user.typing", 1) IN
            /\ \A r \in Rooms, h \in Conns :
                  broadcast_to_server(Cur, r, ev, ex).sent[h] # <<>> =>
                      InRoom(r, h, ex)
            /\ \A d \in DMs, h \in Conns :
                  broadcast_dm(Cur, d, ev).sent[h] # <<>> => InDm(d, h))
    /\ [][\A c, h \in Conns :
            (last'.op = "frame" /\ last'.c = c /\ sent'[h] # <<>>) =>
                IF conn[c].ep = "channel"
                THEN InRoom(conn[c].room, h, NoUser)
                ELSE InDm(conn[c].room, h)]_vars

\* A typing frame of a socket of room 1 has just been swept while another
\* socket is attached to room 2 only and a third to a DM only: the sender
\* got the event, the other two got nothing.
C29_Witness ==
    \E c, h2, h3 \in Conns :
        /\ last = [op |-> "frame", c |-> c, tk |-> "none"]
        /\ conn[c].ep = "channel" /\ connections[1][conn[c].user] = c
        /\ sent[c] # <<>>
        /\ conn[h2].ep = "channel" /\ connections[2][conn[h2].user] = h2
        /\ tr[h2] = "open" /\ sent[h2] = <<>>
        /\ conn[h3].ep = "dm" /\ dm_connections[conn[h3].room][conn[h3].user] = h3
        /\ tr[h3] = "open" /\ sent[h3] = <<>>

\* C30: get_bulk_status(users) returns a map with exactly one entry per
\* requested user id, each equal to what get_status returns for that id in
\* the same store state ("offline" for ids with no record or when the store
\* is unreachable); for an empty list it returns the empty map, whatever
\* the state of the store.
C30_BulkStatusAgrees ==
    /\ get_bulk_status(presence, <<>>) = EmptyMap
    /\ DOMAIN get_bulk_status(presence, <<>>) = {}
    /\ \A ids \in BulkInputs :
          LET res == get_bulk_status(presence, ids) IN
          /\ DOMAIN res = Range(ids)
          /\ \A u \in Range(ids) :
                /\ res[u] = get_status(presence, u)
                /\ (~redis_up \/ presence[u].status = "none") => res[u] = "offline"

\* The store is reachable and holds a record "dnd" for one user and none
\* for another: the bulk answer for the two is "dnd" and "offline".
C30_Witness ==
    \E u, v \in Users :
        /\ redis_up
        /\ presence[u].status = "dnd" /\ presence[v].status = "none"
        /\ get_bulk_status(presence, <<u, v>>)[u] = "dnd"
        /\ get_bulk_status(presence, <<u, v>>)[v] = "offline"

\* C31 (as stated): join is idempotent and overwriting.  After
\* join(room, u, muted, video) the participant record of u holds exactly
\* those flags (speaking false where the record has the flag), u is in the
\* room's participant set, the same join again changes nothing, and a join
\* with other flags replaces the flags; in the channel store and in the
\* voice manager alike, whatever the state of the store.
StoreJoinPost(ch, u, m, v) ==
    LET W1 == join_voice(Cur, ch, u, m, v) IN
    /\ get_user_voice_state(W1, u) =
          [ch |-> ch, muted |-> m, video |-> v, ttl |-> PRESENCE_TTL]
    /\ u \in get_channel_voice_users(W1, ch)
    /\ get_channel_voice_users(W1, ch) = get_channel_voice_users(Cur, ch) \union {u}
    /\ get_bulk_voice_states(W1, {u}) = {[user_id |-> u, muted |-> m, video |-> v]}
    /\ join_voice(W1, ch, u, m, v) = W1
    /\ \A m2 \in BOOLEAN, v2 \in BOOLEAN :
          LET W2 == join_voice(W1, ch, u, m2, v2) IN
          /\ W2 = join_voice(Cur, ch, u, m2, v2)
          /\ W2.rv_user[u].muted = m2 /\ W2.rv_user[u].video = v2

ManagerJoinPost(u, m, v) ==
    LET W1 == vm_join_voice(Cur, u, m, v) IN
    /\ W1.voice_users[u] =
          [in |-> TRUE, muted |-> m, video |-> v, speaking |-> FALSE]
    /\ is_in_voice(W1, u)
    /\ \A x \in Users \ {u} : W1.voice_users[x] = voice_users[x]
    /\ vm_join_voice(W1, u, m, v) = W1
    /\ \A m2 \in BOOLEAN, v2 \in BOOLEAN :
          vm_join_voice(W1, u, m2, v2) = vm_join_voice(Cur, u, m2, v2)

C31_JoinIdempotent ==
    \A u \in Users, m \in BOOLEAN, v \in BOOLEAN :
        /\ ManagerJoinPost(u, m, v)
        /\ \A ch \in Rooms : StoreJoinPost(ch, u, m, v)

\* C31 (amended): the same, for the channel store only while the store is
\* reachable; while it is not, join changes nothing.
C31_JoinIdempotentReachable ==
    \A u \in Users, m \in BOOLEAN, v \in BOOLEAN :
        /\ ManagerJoinPost(u, m, v)
        /\ \A ch \in Rooms :
              IF redis_up THEN StoreJoinPost(ch, u, m, v)
              ELSE join_voice(Cur, ch, u, m, v) = Cur

\* A user holds a muted record in the channel store and a speaking record
\* in the voice manager: a join with other flags has something to replace.
C31_Witness ==
    \E u \in Users :
        /\ redis_up
        /\ rv_user[u].ch # NoRoom /\ rv_user[u].muted /\ ~rv_user[u].video
        /\ u \in rv_chan[rv_user[u].ch].members
        /\ voice_users[u].in /\ voice_users[u].speaking

\* C32: DM get-or-create is symmetric and idempotent.  get_or_create(a, b)
\* and get_or_create(b, a) return the same channel, a repeated call adds no
\* row, and in every reachable state there is at most one DM channel per
\* unordered pair of users, stored with the lower user id as user1.
PairOf(row) == {row.user1_id, row.user2_id}

C32_DmGetOrCreate ==
    /\ [](/\ \A i \in DOMAIN dm_channels :
                dm_channels[i].user1_id < dm_channels[i].user2_id
          /\ \A i, j \in DOMAIN dm_channels :
                PairOf(dm_channels[i]) = PairOf(dm_channels[j]) => i = j
          /\ \A a, b \in Users :
                a # b =>
                   LET r1 == get_or_create(dm_channels, a, b)
                       r2 == get_or_create(r1.rows, b, a)
                   IN /\ r1 = get_or_create(dm_channels, b, a)
                      /\ PairOf(r1.rows[r1.id]) = {a, b}
                      /\ r2 = r1 /\ get_or_create(r1.rows, a, b) = r1)
    /\ [][req'.op = "get_or_create_dm" /\ last'.op = "get_or_create_dm" =>
            /\ req'.channel \in DOMAIN dm_channels'
            /\ req'.user \in PairOf(dm_channels'[req'.channel])
            /\ (\E i \in DOMAIN dm_channels : req'.user \in PairOf(dm_channels[i])
                    /\ i = req'.channel) => dm_channels' = dm_channels
            /\ Len(dm_channels') <= Len(dm_channels) + 1]_vars

\* The user with the higher id of a pair has just asked for the pair's
\* channel and got a row that holds it as user2; other pairs have rows too.
C32_Witness ==
    /\ req.op = "get_or_create_dm" /\ last.op = "get_or_create_dm"
    /\ Len(dm_channels) = 3
    /\ req.channel # Len(dm_channels)
    /\ dm_channels[req.channel].user2_id = req.user

\* C33: invite redemption is idempotent.  A user who has joined a server by
\* redeeming the invite, is still a member and redeems the same code again
\* (the invite not having been revoked) gets already_member; no membership
\* changes and use_count stays as it is, whatever max_uses is.
NotRevoked(inv) ==
    inv.is_active \/ (inv.max_uses # 0 /\ inv.use_count >= inv.max_uses)

C33_RedeemIdempotent ==
    [][(/\ last'.op = "redeem_invite"
        /\ resp' # "404"
        /\ req'.user \in redeemed
        /\ memberships[invite.server_id][req'.user] # NoRole
        /\ NotRevoked(invite))
       => /\ resp' = "already_member"
          /\ memberships' = memberships
          /\ invite'.use_count = invite.use_count]_vars

\* C40: in every reachable state each server has exactly one membership
\* with role owner, and it is that of the user named by server.owner_id.
Owners(s) == {u \in Users : memberships[s][u] = ROLE_OWNER}

C40_OneOwner ==
    \A s \in Servers : servers[s] # NoUser => Owners(s) = {servers[s]}

\* C34: when a user has re-attached to the same room with a new connection,
\* the cleanup of the old connection leaves the new one alone: after the
\* old connection's cascade the registry still maps (room, user) to the new
\* handle, and the user's voice participation is still there.
SamePair(c, d) ==
    /\ c # d
    /\ conn[c].pc = "auth" /\ conn[d].pc = "auth"
    /\ conn[c].ep = conn[d].ep
    /\ conn[c].room = conn[d].room
    /\ conn[c].user = conn[d].user

Participates(d) ==
    IF conn[d].ep = "channel"
    THEN conn[d].user \in rv_chan[conn[d].room].members
    ELSE IF conn[d].ep = "voice" THEN voice_users[conn[d].user] # NoVoiceUser
    ELSE FALSE

C34_OldCleanupSparesNew ==
    [][\A c, d \in Conns :
          (/\ SamePair(c, d)
           /\ Registered(d)
           /\ last' = [op |-> "cleanup", c |-> c, tk |-> "none"])
          => /\ Registered(d)'
             /\ Participates(d) => Participates(d)']_vars

\* C35: a broadcast detaches only handles whose own send failed.  A handle
\* that the sweep's last turn removes from the registry is one whose send
\* raised in that sweep; a handle the user attached while the sweep was
\* under way is still attached when the broadcast returns.
C35_PruneOnlyFailed ==
    [][last'.op = "sweep_done" =>
          \A r \in Rooms, u \in Users :
             LET h == connections[r][u]
             IN (h # NoConn /\ connections'[r][u] # h)
                    => h \in sweep'.failed]_vars

\* C36: a user who still has an authenticated live connection is not made
\* offline by the close of another of their connections: after that
\* connection's cleanup get_status still returns the user's stored status,
\* and no presence.changed(offline) for the user is delivered.
OtherLive(c, d) ==
    /\ d # c
    /\ conn[d].pc = "auth" /\ conn[c].pc = "auth"
    /\ conn[d].user = conn[c].user
    /\ (conn[d].ep # conn[c].ep \/ conn[d].room # conn[c].room)
    /\ tr[d] = "open"
    /\ Registered(d)

C36_StillOnline ==
    [][\A c, d \in Conns :
          (/\ OtherLive(c, d)
           /\ last' = [op |-> "cleanup", c |-> c, tk |-> "none"])
          => /\ get_status(presence', conn[c].user)
                  = get_status(presence, conn[c].user)
             /\ \A h \in Conns : \A i \in DOMAIN sent'[h] :
                   sent'[h][i] # PresenceEv(conn[c].user, "offline")]_vars

\* C37: on the voice endpoint, in every reachable state each user in the
\* voice participant set has an attached voice connection; the set never
\* holds a user whose attachment has been removed.
C37_ParticipantsAttached ==
    \A u \in Users : voice_users[u] # NoVoiceUser => voice_conns[u] # NoConn

\* C38: a voice.leave issued on a connection for room B changes only the
\* user's participation in room B: when the user is a voice participant of
\* another room A, their voice state and their membership in A's
\* participant set stay as they are; and in every reachable state a user
\* has a voice state for room r exactly when the user is in r's
\* participant set.
LeaveFrame == ObjFrame("voice.leave", FALSE, FALSE, FALSE, PyNone)

C38_LeaveScoped ==
    /\ \A u \in Users, r \in Rooms :
          rv_user[u].ch = r <=> u \in rv_chan[r].members
    /\ \A c \in Conns :
          InLoop(c, "channel") =>
             LET W == channel_dispatch(Cur, conn[c].room, conn[c].user, LeaveFrame)
             IN \A A \in Rooms \ {conn[c].room} :
                   conn[c].user \in rv_chan[A].members =>
                      /\ W.rv_user[conn[c].user] = rv_user[conn[c].user]
                      /\ conn[c].user \in W.rv_chan[A].members

\* C39: every voice.user_joined broadcast for a user in a room is followed
\* by a voice.user_left for that user once the user's connection closes,
\* also when the store is unreachable or the voice record has expired by
\* then.  The cleanup of the connection is the last step its handler
\* takes, so that is where the event has to go out: to every peer that
\* was attached before the joiner (and so was sent the voice.user_joined)
\* and still is.
LeftEv(c) ==
    [type |-> "voice.user_left", channel_id |-> conn[c].room,
     user_id |-> conn[c].user]

C39_JoinedThenLeft ==
    [][\A c, h \in Conns :
          (/\ conn[c].pc = "auth" /\ conn[c].ep = "channel"
           /\ joined[c]
           /\ h < c /\ Peer(h, c)
           /\ last' = [op |-> "cleanup", c |-> c, tk |-> "none"])
          => \E i \in DOMAIN sent'[h] : sent'[h][i] = LeftEv(c)]_vars

====
